---- MODULE Spec2Model ----
(***************************************************************************)
(* SyncU: three-way synchronisation of a local folder and its mirror on a  *)
(* removable drive.  The model follows src/src/sync.rs (run_sync and       *)
(* wait_for_message), src/src/utils.rs (scan, metadata store, copy engine, *)
(* directory helpers) and the caller's side of the two channels in         *)
(* src/src/app.rs.                                                         *)
(***************************************************************************)
EXTENDS Integers, Sequences, FiniteSets, TLC

(***************************************************************************)
(* Bounds of the model.                                                    *)
(***************************************************************************)
\* number of distinct file contents (hence of distinct content hashes)
NumHashes == 3
\* number of distinct modification times a file can carry
MaxMTime == 2

(***************************************************************************)
(* Program constants.                                                      *)
(***************************************************************************)
LARGE_FILE_THRESHOLD == 10485760
BATCH_SIZE == 16
COPY_BUFFER == 65536

(***************************************************************************)
(* The path universe: relative paths below the two roots.  Root is the     *)
(* empty relative path (the base directory itself).                        *)
(***************************************************************************)
Root == ""
DirPaths == {"d", "d/e"}
FilePaths == {"a", "d/f", "d/e/g", "d/.syncu_log.txt"}
Parent ==
    ("a" :> Root) @@ ("d" :> Root) @@ ("d/f" :> "d") @@ ("d/e" :> "d")
    @@ ("d/e/g" :> "d/e") @@ ("d/.syncu_log.txt" :> "d")

\* Path::file_name: the final component of a path.
FileName ==
    ("a" :> "a") @@ ("d" :> "d") @@ ("d/f" :> "f") @@ ("d/e" :> "e")
    @@ ("d/e/g" :> "g") @@ ("d/.syncu_log.txt" :> ".syncu_log.txt")

\* utils.rs 86: the names under which the scan drops an entry, wherever the
\* entry lies.
IgnoredNames == {".syncu_metadata.json", ".syncu_log.txt"}

\* The layouts the two trees and the baseline of a behaviour are drawn over:
\* one file in the root, or one directory holding one file.
Layouts == {{"a"}, {"d", "d/f"}}

\* The layout with a directory inside a directory: d, d/e and the file
\* d/e/g.
DeepLayout == {"d", "d/e", "d/e/g"}

\* The layout with a file of the user, inside the directory d, that bears
\* the name of the log file.
NameLayout == {"d", "d/.syncu_log.txt"}

Contents == 1 .. NumHashes
MTimes == 1 .. MaxMTime

\* The byte size of a file is a function of its content: contents 1 and 3
\* have the same size, exactly the large-file threshold, content 2 is one
\* byte above it, every other content is one byte long.
SizeOf(c) ==
    IF c = 2 THEN LARGE_FILE_THRESHOLD + 1
    ELSE IF c \in {1, 3} THEN LARGE_FILE_THRESHOLD
    ELSE 1

\* SHA-256 of a content, as the lowercase hex string the code formats; the
\* digest is taken to be collision free.
calculate_hash(c) == <<"sha256", c>>

\* Path::starts_with, component-wise: q is p or an ancestor of p.
RECURSIVE StartsWith(_, _)
StartsWith(p, q) ==
    IF p = q THEN TRUE
    ELSE IF p = Root THEN FALSE
    ELSE StartsWith(Parent[p], q)

\* The non-root ancestors of p, p excluded.
Ancestors(p) == {d \in DirPaths : d # p /\ StartsWith(p, d)}

(***************************************************************************)
(* A tree on disk: files maps each present file path to its content and    *)
(* modification time, dirs is the set of present directories.              *)
(***************************************************************************)
FileStates == [c : Contents, m : MTimes]

TreeOk(files, dirs) ==
    /\ \A p \in DOMAIN files : Ancestors(p) \subseteq dirs
    /\ \A d \in dirs : Ancestors(d) \subseteq dirs

FileMaps == UNION {[S -> FileStates] : S \in SUBSET FilePaths}

Trees == {t \in [files : FileMaps, dirs : SUBSET DirPaths] : TreeOk(t.files, t.dirs)}

(***************************************************************************)
(* SyncData: files maps a relative path to its FileInfo (hash, modified,   *)
(* size), directories is the set of relative directory paths.              *)
(***************************************************************************)
FileInfoOf(st) ==
    [hash |-> calculate_hash(st.c), modified |-> st.m, size |-> SizeOf(st.c)]

SyncDataDefault == [files |-> <<>>, directories |-> {}]

\* The trees whose paths all lie in the layout U.
TreesOver(U) == {t \in Trees : (DOMAIN t.files \cup t.dirs) \subseteq U}

\* Baselines an earlier completed run can have written: the forced re-hash
\* scan of some local tree.
Baselines ==
    {[files |-> [p \in DOMAIN t.files |-> FileInfoOf(t.files[p])],
      directories |-> t.dirs] : t \in Trees}

BaselinesOver(U) ==
    {b \in Baselines : (DOMAIN b.files \cup b.directories) \subseteq U}

(***************************************************************************)
(* Tree Scanner (utils.rs, scan_directory_with_progress): one FileInfo per *)
(* file, reusing the hash of the last-sync record when its modification    *)
(* time and size equal the file's, hashing the content otherwise.          *)
(***************************************************************************)
\* A scan that trusts the cached hash as soon as the modification time is
\* the recorded one, whatever the size.
ScanHash_MTimeOnly(st, path, last_sync_data) ==
    IF path \in DOMAIN last_sync_data.files
    THEN IF last_sync_data.files[path].modified = st.m
         THEN last_sync_data.files[path].hash
         ELSE calculate_hash(st.c)
    ELSE calculate_hash(st.c)

\* utils.rs 136-152: the file has to be read, calculate_hash is called.
NeedsHash(st, path, last_sync_data) ==
    ~ (/\ path \in DOMAIN last_sync_data.files
       /\ last_sync_data.files[path].modified = st.m
       /\ last_sync_data.files[path].size = SizeOf(st.c))

ScanHash(st, path, last_sync_data) ==
    IF path \in DOMAIN last_sync_data.files
    THEN IF /\ last_sync_data.files[path].modified = st.m
            /\ last_sync_data.files[path].size = SizeOf(st.c)
         THEN last_sync_data.files[path].hash
         ELSE calculate_hash(st.c)
    ELSE calculate_hash(st.c)

\* utils.rs 82-88: the entries that get past the test of their file name.
Scanned(paths) == {p \in paths : FileName[p] \notin IgnoredNames}

scan_directory_with_progress(tree, last_sync_data) ==
    [files |-> [p \in Scanned(DOMAIN tree.files) |->
                   [hash |-> ScanHash(tree.files[p], p, last_sync_data),
                    modified |-> tree.files[p].m,
                    size |-> SizeOf(tree.files[p].c)]],
     directories |-> Scanned(tree.dirs)]

\* The scan of tree reuses, for some file, a hash that is not its content's.
ReusesStaleHash(tree, last_sync_data) ==
    \E p \in Scanned(DOMAIN tree.files) :
        ScanHash(tree.files[p], p, last_sync_data) # calculate_hash(tree.files[p].c)

\* utils.rs 140-151: a file whose content has to be hashed and cannot be
\* opened makes calculate_hash return Err, and its worker returns None: the
\* scan goes on without the file.  bad holds the paths of the tree that
\* cannot be opened.
Readable(tree, bad, last_sync_data) ==
    [files |-> [p \in {q \in DOMAIN tree.files :
                          ~ (q \in bad /\ NeedsHash(tree.files[q], q, last_sync_data))}
                   |-> tree.files[p]],
     dirs |-> tree.dirs]

\* The entries WalkDir yields for a tree: the root, its directories, its files.
EntryCount(tree) == 1 + Cardinality(tree.dirs) + Cardinality(DOMAIN tree.files)

(***************************************************************************)
(* Progress fractions.  The f32 quotient n / d is kept as the pair         *)
(* <<n, d>>, a literal as a pair with the same value.                      *)
(***************************************************************************)
Fraction(n, d) == <<n, d>>

\* The entries that reach the counter of the scan (utils.rs 82-100): the
\* root is skipped before it.
Processed(tree) ==
    Cardinality(Scanned(tree.dirs)) + Cardinality(Scanned(DOMAIN tree.files))

\* utils.rs 100-116: the fractions a complete scan sends, one for every
\* value of the counter that is 1 modulo 10.
EntryProgress(current_processed, total_entries) ==
    IF total_entries > 0 THEN Fraction(current_processed, total_entries)
    ELSE Fraction(1, 1)

ScanProgress(processed, total_entries) ==
    {EntryProgress(k, total_entries) : k \in {j \in 1 .. processed : j % 10 = 1}}

(***************************************************************************)
(* Directory helpers (utils.rs).                                           *)
(***************************************************************************)
\* A pruning of the creations that keeps the topmost paths.
prune_ancestor_paths_KeepsTopmost(paths) ==
    {p1 \in paths : ~ \E p2 \in paths : p1 # p2 /\ StartsWith(p1, p2)}

prune_ancestor_paths(paths) ==
    {p1 \in paths : ~ \E p2 \in paths : p1 # p2 /\ StartsWith(p2, p1)}

\* A pruning of the deletions that drops nothing.
prune_descendant_paths_Unpruned(paths) == paths

prune_descendant_paths(paths) ==
    {p1 \in paths : ~ \E p2 \in paths : p1 # p2 /\ StartsWith(p1, p2)}

\* A create_dir_all that creates nothing.
create_dir_all_Skipped(dirs, d) == dirs

\* fs::create_dir_all of a relative directory below the root.
create_dir_all(dirs, d) ==
    IF d = Root THEN dirs ELSE dirs \cup {d} \cup Ancestors(d)

\* fs::remove_dir_all: the directory and everything below it.
remove_dir_all(tree, d) ==
    [files |-> [p \in {q \in DOMAIN tree.files : ~ StartsWith(q, d)} |-> tree.files[p]],
     dirs |-> {x \in tree.dirs : ~ StartsWith(x, d)}]

\* fs::remove_file.
remove_file(tree, path) ==
    [files |-> [p \in DOMAIN tree.files \ {path} |-> tree.files[p]],
     dirs |-> tree.dirs]

DirIsEmpty(tree, d) ==
    /\ ~ \E p \in DOMAIN tree.files : Parent[p] = d
    /\ ~ \E x \in tree.dirs : Parent[x] = d

\* cleanup_empty_dirs: walk up from the parent of start_path, removing each
\* empty directory, until the base directory or a non-empty one is met.
RECURSIVE CleanupFrom(_, _)
CleanupFrom(tree, dir) ==
    IF dir = Root THEN tree
    ELSE IF DirIsEmpty(tree, dir)
         THEN CleanupFrom([tree EXCEPT !.dirs = @ \ {dir}], Parent[dir])
         ELSE tree

cleanup_empty_dirs(tree, start_path) == CleanupFrom(tree, Parent[start_path])

(***************************************************************************)
(* Diff Planner (sync.rs, run_sync lines 83-178).                          *)
(***************************************************************************)
Act(kind, path) == [kind |-> kind, path |-> path]
NoAction == Act("None", Root)

CopyKinds == {"LocalToRemote", "RemoteToLocal"}
DeleteFileKinds == {"DeleteLocal", "DeleteRemote"}
DeleteDirKinds == {"DeleteLocalDir", "DeleteRemoteDir"}
CreateDirKinds == {"CreateLocalDir", "CreateRemoteDir"}
DeleteKinds == DeleteFileKinds \cup DeleteDirKinds
FileKinds == CopyKinds \cup DeleteFileKinds \cup {"Conflict"}

\* HashMap::get as an Option: <<>> is None, <<info>> is Some(info).
Get(map, path) == IF path \in DOMAIN map THEN <<map[path]>> ELSE <<>>
IsSome(o) == o # <<>>

\* FileAction with the local side winning when both sides changed.
FileAction_LocalWins(local_info, remote_info, last_info) ==
    IF IsSome(local_info) /\ IsSome(remote_info) /\ IsSome(last_info)
    THEN IF local_info[1].hash # last_info[1].hash THEN "LocalToRemote"
         ELSE IF remote_info[1].hash # last_info[1].hash THEN "RemoteToLocal"
         ELSE "None"
    ELSE IF IsSome(local_info) /\ IsSome(remote_info)
    THEN IF local_info[1].hash = remote_info[1].hash THEN "None" ELSE "Conflict"
    ELSE IF IsSome(local_info) /\ IsSome(last_info) THEN "DeleteLocal"
    ELSE IF IsSome(remote_info) /\ IsSome(last_info) THEN "DeleteRemote"
    ELSE IF IsSome(local_info) THEN "LocalToRemote"
    ELSE IF IsSome(remote_info) THEN "RemoteToLocal"
    ELSE "None"

\* FileAction deciding a file that differs between the sides and has no
\* baseline by its modification time, the newer side winning.
FileAction_ByMTime(local_info, remote_info, last_info) ==
    IF IsSome(local_info) /\ IsSome(remote_info) /\ IsSome(last_info)
    THEN LET local_changed == local_info[1].hash # last_info[1].hash
             remote_changed == remote_info[1].hash # last_info[1].hash
         IN  IF local_changed /\ remote_changed THEN "Conflict"
             ELSE IF local_changed THEN "LocalToRemote"
             ELSE IF remote_changed THEN "RemoteToLocal"
             ELSE "None"
    ELSE IF IsSome(local_info) /\ IsSome(remote_info)
    THEN IF local_info[1].hash = remote_info[1].hash THEN "None"
         ELSE IF local_info[1].modified > remote_info[1].modified THEN "LocalToRemote"
         ELSE IF local_info[1].modified < remote_info[1].modified THEN "RemoteToLocal"
         ELSE "Conflict"
    ELSE IF IsSome(local_info) /\ IsSome(last_info) THEN "DeleteLocal"
    ELSE IF IsSome(remote_info) /\ IsSome(last_info) THEN "DeleteRemote"
    ELSE IF IsSome(local_info) THEN "LocalToRemote"
    ELSE IF IsSome(remote_info) THEN "RemoteToLocal"
    ELSE "None"

\* FileAction copying a one-sided change in the wrong direction.
FileAction_WrongDirection(local_info, remote_info, last_info) ==
    IF IsSome(local_info) /\ IsSome(remote_info) /\ IsSome(last_info)
    THEN LET local_changed == local_info[1].hash # last_info[1].hash
             remote_changed == remote_info[1].hash # last_info[1].hash
         IN  IF local_changed /\ remote_changed THEN "Conflict"
             ELSE IF local_changed THEN "RemoteToLocal"
             ELSE IF remote_changed THEN "LocalToRemote"
             ELSE "None"
    ELSE IF IsSome(local_info) /\ IsSome(remote_info)
    THEN IF local_info[1].hash = remote_info[1].hash THEN "None" ELSE "Conflict"
    ELSE IF IsSome(local_info) /\ IsSome(last_info) THEN "DeleteLocal"
    ELSE IF IsSome(remote_info) /\ IsSome(last_info) THEN "DeleteRemote"
    ELSE IF IsSome(local_info) THEN "LocalToRemote"
    ELSE IF IsSome(remote_info) THEN "RemoteToLocal"
    ELSE "None"

\* FileAction that does not compare the two sides of a file without a
\* baseline record.
FileAction_NoBaselineConflict(local_info, remote_info, last_info) ==
    IF IsSome(local_info) /\ IsSome(remote_info) /\ IsSome(last_info)
    THEN LET local_changed == local_info[1].hash # last_info[1].hash
             remote_changed == remote_info[1].hash # last_info[1].hash
         IN  IF local_changed /\ remote_changed THEN "Conflict"
             ELSE IF local_changed THEN "LocalToRemote"
             ELSE IF remote_changed THEN "RemoteToLocal"
             ELSE "None"
    ELSE IF IsSome(local_info) /\ IsSome(remote_info)
    THEN "Conflict"
    ELSE IF IsSome(local_info) /\ IsSome(last_info) THEN "DeleteLocal"
    ELSE IF IsSome(remote_info) /\ IsSome(last_info) THEN "DeleteRemote"
    ELSE IF IsSome(local_info) THEN "LocalToRemote"
    ELSE IF IsSome(remote_info) THEN "RemoteToLocal"
    ELSE "None"

\* FileAction that copies a locally modified file back instead of
\* propagating its deletion on the mirror.
FileAction_KeepsModified(local_info, remote_info, last_info) ==
    IF IsSome(local_info) /\ IsSome(remote_info) /\ IsSome(last_info)
    THEN LET local_changed == local_info[1].hash # last_info[1].hash
             remote_changed == remote_info[1].hash # last_info[1].hash
         IN  IF local_changed /\ remote_changed THEN "Conflict"
             ELSE IF local_changed THEN "LocalToRemote"
             ELSE IF remote_changed THEN "RemoteToLocal"
             ELSE "None"
    ELSE IF IsSome(local_info) /\ IsSome(remote_info)
    THEN IF local_info[1].hash = remote_info[1].hash THEN "None" ELSE "Conflict"
    ELSE IF IsSome(local_info) /\ IsSome(last_info)
    THEN IF local_info[1].hash # last_info[1].hash THEN "LocalToRemote" ELSE "DeleteLocal"
    ELSE IF IsSome(remote_info) /\ IsSome(last_info) THEN "DeleteRemote"
    ELSE IF IsSome(local_info) THEN "LocalToRemote"
    ELSE IF IsSome(remote_info) THEN "RemoteToLocal"
    ELSE "None"

\* The match on (local_info, remote_info, last_info), sync.rs lines 152-170.
FileAction(local_info, remote_info, last_info) ==
    IF IsSome(local_info) /\ IsSome(remote_info) /\ IsSome(last_info)
    THEN LET local_changed == local_info[1].hash # last_info[1].hash
             remote_changed == remote_info[1].hash # last_info[1].hash
         IN  IF local_changed /\ remote_changed THEN "Conflict"
             ELSE IF local_changed THEN "LocalToRemote"
             ELSE IF remote_changed THEN "RemoteToLocal"
             ELSE "None"
    ELSE IF IsSome(local_info) /\ IsSome(remote_info)
    THEN IF local_info[1].hash = remote_info[1].hash THEN "None" ELSE "Conflict"
    ELSE IF IsSome(local_info) /\ IsSome(last_info) THEN "DeleteLocal"
    ELSE IF IsSome(remote_info) /\ IsSome(last_info) THEN "DeleteRemote"
    ELSE IF IsSome(local_info) THEN "LocalToRemote"
    ELSE IF IsSome(remote_info) THEN "RemoteToLocal"
    ELSE "None"

AllFiles(l, r, s) == DOMAIN s.files \cup DOMAIN l.files \cup DOMAIN r.files
AllDirs(l, r, s) == s.directories \cup l.directories \cup r.directories

FilePlan(l, r, s) ==
    {Act(FileAction(Get(l.files, p), Get(r.files, p), Get(s.files, p)), p) :
        p \in AllFiles(l, r, s)} \ {Act("None", p) : p \in FilePaths}

\* DirAction creating again on the mirror a directory that was deleted there.
DirAction_Resurrects(in_local, in_remote, in_last) ==
    IF in_local /\ ~ in_remote /\ in_last THEN "CreateRemoteDir"
    ELSE IF ~ in_local /\ in_remote /\ in_last THEN "DeleteRemoteDir"
    ELSE IF in_local /\ ~ in_remote /\ ~ in_last THEN "CreateRemoteDir"
    ELSE IF ~ in_local /\ in_remote /\ ~ in_last THEN "CreateLocalDir"
    ELSE "None"

\* The match on (in_local, in_remote, in_last), sync.rs lines 98-115.
DirAction(in_local, in_remote, in_last) ==
    IF in_local /\ ~ in_remote /\ in_last THEN "DeleteLocalDir"
    ELSE IF ~ in_local /\ in_remote /\ in_last THEN "DeleteRemoteDir"
    ELSE IF in_local /\ ~ in_remote /\ ~ in_last THEN "CreateRemoteDir"
    ELSE IF ~ in_local /\ in_remote /\ ~ in_last THEN "CreateLocalDir"
    ELSE "None"

DirCandidates(kind, l, r, s) ==
    {d \in AllDirs(l, r, s) :
        DirAction(d \in l.directories, d \in r.directories, d \in s.directories) = kind}

DirPlan(l, r, s) ==
    {Act("CreateLocalDir", d) : d \in prune_ancestor_paths(DirCandidates("CreateLocalDir", l, r, s))}
    \cup {Act("CreateRemoteDir", d) : d \in prune_ancestor_paths(DirCandidates("CreateRemoteDir", l, r, s))}
    \cup {Act("DeleteLocalDir", d) : d \in prune_descendant_paths(DirCandidates("DeleteLocalDir", l, r, s))}
    \cup {Act("DeleteRemoteDir", d) : d \in prune_descendant_paths(DirCandidates("DeleteRemoteDir", l, r, s))}

BuildPlan(l, r, s) == DirPlan(l, r, s) \cup FilePlan(l, r, s)

(***************************************************************************)
(* Messages (models.rs, SyncMessage).  a and b carry the payload as        *)
(* strings: the side and relative path of an absolute path, a reply value, *)
(* or the kind and path of a log line.                                     *)
(***************************************************************************)
Msg(type, a, b) == [type |-> type, a |-> a, b |-> b]
Stop == Msg("Stop", "", "")
DeletionConfirmed(c) == Msg("DeletionConfirmed", IF c THEN "true" ELSE "false", "")
ConflictResolved(r) == Msg("ConflictResolved", r, "")
Log(tag, path) == Msg("Log", tag, path)
ConfirmDeletion(side, path) == Msg("ConfirmDeletion", side, path)
AskForConflictResolution(path) == Msg("AskForConflictResolution", "", path)
Complete == Msg("Complete", "", "")
Stopped == Msg("Stopped", "", "")

Resolutions == {"KeepLocal", "KeepRemote", "Skip"}

VARIABLES
    local,              \* the local tree on disk
    remote,             \* the mirror tree on disk (usb_sync_path)
    meta,               \* .syncu_metadata.json: missing, corrupt, or a SyncData
    logFile,            \* lines appended to .syncu_log.txt since the run began
    pc,                 \* position of run_sync
    result,             \* outcome of the closure: running, ok, stop, disconnected, error
    local_folder,       \* argument: TRUE when Some
    local_named,        \* the path in local_folder has a final component (file_name)
    usb_drive,          \* argument: TRUE when Some
    last_sync_data,
    local_sync_data,
    remote_sync_data,
    sync_plan,          \* the plan as built
    remaining,          \* actions of the plan not yet processed
    cur,                \* the action being executed
    resolution,         \* the resolution received for cur, when a Conflict
    copied,             \* copied_size of the chunked copy in progress
    skipped_files,
    inbox,              \* caller -> engine channel (rx)
    sent,               \* engine -> caller channel (tx): messages sent in this run
    callerAlive,        \* the caller still holds its ends of both channels
    pending,            \* the request sent on tx that the caller has not read yet
    deletion_choice,    \* caller: the answer given for all deletions of this run
    show_confirmation,          \* caller: a deletion dialog is open
    show_conflict_resolution,   \* caller: a conflict dialog is open
    stopSent,           \* caller: SyncState::Stopping
    local_total,        \* the entry count WalkDir gave before the local scan
    total_sync_size,    \* bytes the plan is expected to copy
    processed_size,     \* bytes of the actions already done
    file_size,          \* the size read for the action being executed
    unreadable,         \* the files, as <<side, path>>, whose content cannot be opened
    scan,               \* the scan in progress, worker by worker
    progress,           \* fractions of the Progress messages sent in this run
    hist                \* this run: paths whose copy completed, whether a deletion
                        \* was denied, where a Stop was received, whether a scan
                        \* reused a hash that is not the hash of the file's content,
                        \* whether a deletion request was answered without a dialog,
                        \* the metadata file as the run found it

vars == <<local, remote, meta, logFile, pc, result, local_folder, local_named, usb_drive,
          last_sync_data, local_sync_data, remote_sync_data, sync_plan, remaining,
          cur, resolution, copied, skipped_files, inbox, sent, callerAlive,
          pending, deletion_choice, show_confirmation, show_conflict_resolution,
          stopSent, local_total, total_sync_size, processed_size, file_size,
          unreadable, scan, progress, hist>>

MetaStates(U) ==
    {[state |-> "missing", data |-> SyncDataDefault],
     [state |-> "corrupt", data |-> SyncDataDefault]}
    \cup {[state |-> "ok", data |-> b] : b \in BaselinesOver(U)}

NoHist == [copied |-> {}, denied |-> FALSE, stopAt |-> "", staleHash |-> FALSE,
           scanStop |-> FALSE, silent |-> FALSE,
           meta0 |-> [state |-> "missing", data |-> SyncDataDefault]]

\* The locals of scan_directory_with_progress (utils.rs 59-62, 71): no scan
\* is in progress when it has no worker.
NoScan ==
    [workers |-> <<>>, stop_flag |-> FALSE, results |-> <<>>, directories |-> {},
     processed_entries |-> 0]

\* The state before the first run, the two trees and the metadata file
\* drawn over one of the layouts Us.
InitOver(Us) ==
    /\ \E U \in Us :
          /\ local \in TreesOver(U)
          /\ remote \in TreesOver(U)
          /\ meta \in MetaStates(U)
    /\ logFile = <<>>
    /\ pc = "idle"
    /\ result = "running"
    /\ local_folder = TRUE
    /\ local_named = TRUE
    /\ usb_drive = TRUE
    /\ last_sync_data = SyncDataDefault
    /\ local_sync_data = SyncDataDefault
    /\ remote_sync_data = SyncDataDefault
    /\ sync_plan = {}
    /\ remaining = {}
    /\ cur = NoAction
    /\ resolution = ""
    /\ copied = 0
    /\ skipped_files = {}
    /\ inbox = <<>>
    /\ sent = <<>>
    /\ callerAlive = TRUE
    /\ pending = ""
    /\ deletion_choice = "None"
    /\ show_confirmation = FALSE
    /\ show_conflict_resolution = FALSE
    /\ stopSent = FALSE
    /\ local_total = 0
    /\ total_sync_size = 0
    /\ processed_size = 0
    /\ file_size = 0
    /\ scan = NoScan
    /\ progress = {}
    /\ hist = [NoHist EXCEPT !.meta0 = meta]

Init == InitOver(Layouts) /\ unreadable = {}

(***************************************************************************)
(* rx.try_recv() at a check point: each call takes one queued message,     *)
(* whatever it is, and the run stops when one of them is Stop.             *)
(***************************************************************************)
Min(a, b) == IF a < b THEN a ELSE b
Taken(q, n) == Min(n, Len(q))
ObservedStop(q, n) == \E i \in 1 .. Taken(q, n) : q[i] = Stop
FirstStop(q, n) ==
    CHOOSE i \in 1 .. Taken(q, n) : q[i] = Stop /\ \A j \in 1 .. i - 1 : q[j] # Stop
AfterRecv(q, n) ==
    IF ObservedStop(q, n) THEN SubSeq(q, FirstStop(q, n) + 1, Len(q))
    ELSE SubSeq(q, Taken(q, n) + 1, Len(q))

(***************************************************************************)
(* The part of the state a step of the executor can change, as a record,   *)
(* so that each piece of run_sync is an operator from record to record.    *)
(***************************************************************************)
E ==
    [pc |-> pc, result |-> result, local |-> local, remote |-> remote,
     logFile |-> logFile, remaining |-> remaining, cur |-> cur,
     resolution |-> resolution, copied |-> copied, skipped_files |-> skipped_files,
     inbox |-> inbox, sent |-> sent, pending |-> pending,
     processed_size |-> processed_size, file_size |-> file_size,
     scan |-> scan, progress |-> progress, hist |-> hist]

Apply(u) ==
    /\ pc' = u.pc
    /\ result' = u.result
    /\ local' = u.local
    /\ remote' = u.remote
    /\ logFile' = u.logFile
    /\ remaining' = u.remaining
    /\ cur' = u.cur
    /\ resolution' = u.resolution
    /\ copied' = u.copied
    /\ skipped_files' = u.skipped_files
    /\ inbox' = u.inbox
    /\ sent' = u.sent
    /\ pending' = u.pending
    /\ processed_size' = u.processed_size
    /\ file_size' = u.file_size
    /\ scan' = u.scan
    /\ progress' = u.progress
    /\ hist' = u.hist
    /\ UNCHANGED <<local_folder, local_named, usb_drive, callerAlive, deletion_choice,
                   show_confirmation, show_conflict_resolution, stopSent, unreadable>>

\* A Stop that is taken from the channel and not acted on.
StopU_Ignored(u) == u

\* return Ok(true) after a Stop was received
StopU(u) == [u EXCEPT !.pc = "finish", !.result = "stop", !.hist.stopAt = u.pc]
\* A disconnected wait that leaves through the error exit.
DisconnectedU_AsError(u) == [u EXCEPT !.pc = "finish", !.result = "error"]

\* return Ok(true) after wait_for_message found the channel disconnected
DisconnectedU(u) == [u EXCEPT !.pc = "finish", !.result = "disconnected"]
\* the ? operator on an Err
ErrorU(u) == [u EXCEPT !.pc = "finish", !.result = "error"]

Other(side) == IF side = "local" THEN "remote" ELSE "local"
Tree(u, side) == IF side = "local" THEN u.local ELSE u.remote
SetTree(u, side, t) ==
    IF side = "local" THEN [u EXCEPT !.local = t] ELSE [u EXCEPT !.remote = t]
\* A write that leaves the destination truncated.
WriteFile_Truncated(tree, path, st) ==
    [files |-> [p \in DOMAIN tree.files \cup {path} |->
                   IF p = path THEN [st EXCEPT !.c = 0] ELSE tree.files[p]],
     dirs |-> tree.dirs]

WriteFile(tree, path, st) ==
    [files |-> [p \in DOMAIN tree.files \cup {path} |->
                   IF p = path THEN st ELSE tree.files[p]],
     dirs |-> tree.dirs]

\* The content of a destination file that File::create has truncated and
\* the copy loop has not yet filled.
PartialContent == 0

CopyTags == {"l2r", "r2l", "keep_local", "keep_remote"}

\* sync.rs lines 387-389: the action is done; add its size to the bytes
\* processed, send its Log line, append it to the durable log, go on with
\* the next action.
FinishActionU(u, a, tag) ==
    LET u1 == [u EXCEPT !.hist.copied = IF tag \in CopyTags THEN @ \cup {a.path} ELSE @,
                        !.processed_size = @ + u.file_size,
                        !.file_size = 0]
    IN  IF callerAlive
        THEN [u1 EXCEPT !.sent = Append(@, Log(tag, a.path)),
                        !.logFile = Append(@, <<tag, a.path>>),
                        !.pc = "exec",
                        !.remaining = @ \ {a},
                        !.cur = NoAction,
                        !.resolution = "",
                        !.copied = 0]
        ELSE ErrorU(u1)

\* A copy that reads from the local side whatever the resolution.
FromSide_IgnoresResolution(a, res) ==
    IF a.kind \in {"LocalToRemote", "Conflict"} THEN "local" ELSE "remote"

\* The side a copy reads from: sync.rs lines 238, 249, 311, 322.
FromSide(a, res) ==
    IF a.kind = "LocalToRemote" \/ (a.kind = "Conflict" /\ res = "KeepLocal")
    THEN "local" ELSE "remote"

CopyTag(a, res) ==
    IF a.kind = "LocalToRemote" THEN "l2r"
    ELSE IF a.kind = "RemoteToLocal" THEN "r2l"
    ELSE IF res = "KeepLocal" THEN "keep_local" ELSE "keep_remote"

\* A copy that hands a file of exactly the threshold size to the chunked
\* copy.
CopyU_ChunksAtThreshold(u, a, res, m) ==
    LET fromSide == FromSide(a, res)
        toSide == Other(fromSide)
        from == Tree(u, fromSide)
        to == Tree(u, toSide)
        to1 == [to EXCEPT !.dirs = create_dir_all(@, Parent[a.path])]
    IN  IF a.path \notin DOMAIN from.files
        THEN ErrorU(SetTree(u, toSide, to1))
        ELSE IF SizeOf(from.files[a.path].c) >= LARGE_FILE_THRESHOLD
        THEN [SetTree(u, toSide, WriteFile(to1, a.path, [c |-> PartialContent, m |-> m]))
                 EXCEPT !.pc = "copying", !.cur = a, !.resolution = res, !.copied = 0]
        ELSE FinishActionU(
                 SetTree(u, toSide, WriteFile(to1, a.path, [c |-> from.files[a.path].c, m |-> m])),
                 a, CopyTag(a, res))

\* A copy, sync.rs lines 238-245 (and 249-256, 311-318, 322-329): create the
\* destination's parent, read the source's size, then either fs::copy or
\* enter copy_large_file_with_progress, whose File::create truncates the
\* destination.  m is the modification time the written file gets.
CopyU(u, a, res, m) ==
    LET fromSide == FromSide(a, res)
        toSide == Other(fromSide)
        from == Tree(u, fromSide)
        to == Tree(u, toSide)
        to1 == [to EXCEPT !.dirs = create_dir_all(@, Parent[a.path])]
    IN  IF a.path \notin DOMAIN from.files
        THEN ErrorU(SetTree(u, toSide, to1))
        ELSE IF SizeOf(from.files[a.path].c) > LARGE_FILE_THRESHOLD
        THEN [SetTree(u, toSide, WriteFile(to1, a.path, [c |-> PartialContent, m |-> m]))
                 EXCEPT !.pc = "copying", !.cur = a, !.resolution = res, !.copied = 0]
        ELSE FinishActionU(
                 SetTree(u, toSide, WriteFile(to1, a.path, [c |-> from.files[a.path].c, m |-> m])),
                 a, CopyTag(a, res))

\* The cancellation arm of copy_large_file_with_progress that returns
\* without removing the unfinished destination file.
CancelCopyU_LeavesPartial(u, toSide, path) == StopU(u)

\* utils.rs 222-227: on Stop, drop the handle, remove the destination file,
\* return true.
CancelCopyU(u, toSide, path) ==
    StopU(SetTree(u, toSide, remove_file(Tree(u, toSide), path)))

DeleteSide(a) == IF a.kind \in {"DeleteLocal", "DeleteLocalDir"} THEN "local" ELSE "remote"

\* A deletion that does not look at the reply.
DeleteEffect_Unasked(tree, a, confirmed) ==
    IF a.kind \in DeleteFileKinds
    THEN IF a.path \in DOMAIN tree.files
         THEN cleanup_empty_dirs(remove_file(tree, a.path), a.path)
         ELSE tree
    ELSE IF a.path \in tree.dirs THEN remove_dir_all(tree, a.path) ELSE tree

\* What a deletion does to its tree once the reply is in: sync.rs lines
\* 269-277, 289-297, 357-364, 377-384.
DeleteEffect(tree, a, confirmed) ==
    IF ~ confirmed THEN tree
    ELSE IF a.kind \in DeleteFileKinds
    THEN IF a.path \in DOMAIN tree.files
         THEN cleanup_empty_dirs(remove_file(tree, a.path), a.path)
         ELSE tree
    ELSE IF a.path \in tree.dirs THEN remove_dir_all(tree, a.path) ELSE tree

DeleteTag(a, confirmed) ==
    IF a.kind \in DeleteFileKinds
    THEN IF ~ confirmed THEN "cancel_delete"
         ELSE IF a.kind = "DeleteLocal" THEN "deleted_local" ELSE "deleted_remote"
    ELSE IF ~ confirmed THEN "cancel_delete_dir"
         ELSE IF a.kind = "DeleteLocalDir" THEN "deleted_local_dir" ELSE "deleted_remote_dir"

\* A deletion whose denial ends the run.
DeleteU_DenialStops(u, a, confirmed) ==
    IF confirmed
    THEN FinishActionU(
             SetTree(u, DeleteSide(a), DeleteEffect(Tree(u, DeleteSide(a)), a, confirmed)),
             a, DeleteTag(a, confirmed))
    ELSE StopU(u)

DeleteU(u, a, confirmed) ==
    FinishActionU(
        [SetTree(u, DeleteSide(a), DeleteEffect(Tree(u, DeleteSide(a)), a, confirmed))
            EXCEPT !.hist.denied = @ \/ ~ confirmed],
        a, DeleteTag(a, confirmed))

\* sync.rs lines 261, 281, 348, 368 and 300: send the request and enter
\* wait_for_message.
RequestU(u, a) ==
    IF a.kind = "Conflict"
    THEN [u EXCEPT !.sent = Append(@, AskForConflictResolution(a.path)),
                   !.pc = "wait", !.cur = a, !.pending = "conflict"]
    ELSE [u EXCEPT !.sent = Append(@, ConfirmDeletion(DeleteSide(a), a.path)),
                   !.pc = "wait", !.cur = a, !.pending = "deletion"]

\* sync.rs lines 338-345.
CreateDirU(u, a) ==
    LET side == IF a.kind = "CreateLocalDir" THEN "local" ELSE "remote"
        t == Tree(u, side)
    IN  FinishActionU(SetTree(u, side, [t EXCEPT !.dirs = create_dir_all(@, a.path)]),
                      a, IF side = "local" THEN "mkdir_local" ELSE "mkdir_remote")

\* A sizing that counts a Conflict with the size of the remote file.
PlannedSize_ConflictByRemote(a, l, r) ==
    IF a.kind = "LocalToRemote" THEN SizeOf(l.files[a.path].c)
    ELSE IF a.kind \in {"RemoteToLocal", "Conflict"} THEN SizeOf(r.files[a.path].c)
    ELSE 0

\* sync.rs lines 180-187: what an action adds to total_sync_size; a Conflict
\* is counted with the size of the local file.
PlannedSize(a, l, r) ==
    IF a.kind \in {"LocalToRemote", "Conflict"} THEN SizeOf(l.files[a.path].c)
    ELSE IF a.kind = "RemoteToLocal" THEN SizeOf(r.files[a.path].c)
    ELSE 0

RECURSIVE TotalSyncSize(_, _, _)
TotalSyncSize(plan, l, r) ==
    IF plan = {} THEN 0
    ELSE LET a == CHOOSE x \in plan : TRUE
         IN  PlannedSize(a, l, r) + TotalSyncSize(plan \ {a}, l, r)

\* sync.rs lines 217-231: the size read before an action, 0 when the file
\* cannot be read; a Conflict reads the local file.
FileSize(u, a) ==
    IF a.kind \in CopyKinds \cup {"Conflict"}
    THEN LET t == IF a.kind = "RemoteToLocal" THEN u.remote ELSE u.local
         IN  IF a.path \in DOMAIN t.files THEN SizeOf(t.files[a.path].c) ELSE 0
    ELSE 0

\* sync.rs line 233.
ActionProgress(processed, total) ==
    IF total > 0 THEN Fraction(processed, total) ELSE Fraction(0, 1)

\* utils.rs line 240.
CopyProgress(processed_size_before, copied_size, total) ==
    Fraction(processed_size_before + copied_size, total)

\* sync.rs lines 213-234: the size of the action is read and its Progress
\* message sent before the action begins.
AnnounceU(u, a) ==
    [u EXCEPT !.file_size = FileSize(u, a),
              !.progress = @ \cup {ActionProgress(u.processed_size, total_sync_size)}]

\* The match on the action, sync.rs line 236.
BeginU(u, a, m) ==
    IF a.kind \in CopyKinds THEN CopyU(u, a, "", m)
    ELSE IF a.kind \in CreateDirKinds THEN CreateDirU(u, a)
    ELSE RequestU(u, a)

\* The reply to a Conflict, sync.rs lines 309-336.
ResolveU(u, a, res, m) ==
    IF res = "Skip"
    THEN FinishActionU([u EXCEPT !.skipped_files = @ \cup {a.path}], a, "skip")
    ELSE CopyU(u, a, res, m)

(***************************************************************************)
(* run_sync, step by step.                                                 *)
(***************************************************************************)
snapVars == <<last_sync_data, local_sync_data, remote_sync_data, local_total>>

\* load_sync_data (utils.rs 193-201): a missing file gives the default, a
\* file serde_json cannot read gives an Err.
load_sync_data(mf) ==
    IF mf.state = "missing" THEN [ok |-> TRUE, data |-> SyncDataDefault]
    ELSE IF mf.state = "corrupt" THEN [ok |-> FALSE, data |-> SyncDataDefault]
    ELSE [ok |-> TRUE, data |-> mf.data]

\* The caller spawns run_sync on fresh channels (app.rs 430-452), which its
\* main panel allows when no dialog is open and the last run's messages are
\* read (app.rs 320-324); lines 47-60 of run_sync: the two roots must be set,
\* then the baseline is loaded.
StartRun(lf, nm, ud) ==
    /\ pc \in {"idle", "done"}
    /\ ~ lf => nm
    /\ pending = ""
    /\ ~ show_confirmation
    /\ ~ show_conflict_resolution
    /\ deletion_choice' = "None"
    /\ local_folder' = lf
    /\ local_named' = nm
    /\ usb_drive' = ud
    /\ inbox' = <<>>
    /\ sent' = <<>>
    /\ callerAlive' = TRUE
    /\ stopSent' = FALSE
    /\ logFile' = <<>>
    /\ hist' = [NoHist EXCEPT !.meta0 = meta]
    /\ skipped_files' = {}
    /\ sync_plan' = {}
    /\ remaining' = {}
    /\ cur' = NoAction
    /\ resolution' = ""
    /\ copied' = 0
    /\ local_total' = 0
    /\ total_sync_size' = 0
    /\ processed_size' = 0
    /\ file_size' = 0
    /\ scan' = NoScan
    /\ progress' = IF lf /\ nm /\ ud THEN {Fraction(0, 1)} ELSE {}
    /\ local_sync_data' = SyncDataDefault
    /\ remote_sync_data' = SyncDataDefault
    /\ IF lf /\ nm /\ ud /\ load_sync_data(meta).ok
       THEN /\ last_sync_data' = load_sync_data(meta).data
            /\ pc' = "scan_local"
            /\ result' = "running"
       ELSE /\ last_sync_data' = SyncDataDefault
            /\ pc' = "finish"
            /\ result' = "error"
    /\ UNCHANGED <<local, remote, meta, pending, show_confirmation,
                   show_conflict_resolution, unreadable>>

\* Lines 62-69 (side = "local") and 71-79 (side = "remote"): the check point
\* before the scan, the Progress send, then the scan, each entry of which
\* polls the channel; a Stop seen by the scan makes it return None.
ScanOutcome(q, alive, entries) ==
    IF ObservedStop(q, 1) THEN "stop"
    ELSE IF ~ alive THEN "error"
    ELSE IF ObservedStop(AfterRecv(q, 1), entries) THEN "stop"
    ELSE "scanned"

ScanInbox(q, alive, entries) ==
    IF ObservedStop(q, 1) \/ ~ alive THEN AfterRecv(q, 1)
    ELSE AfterRecv(AfterRecv(q, 1), entries)

\* What a scan adds to the Progress messages of the run: the message sent
\* before it, then its own, of which a cancelled scan has sent any part.
ScanSends(u, first, o, processed, total_entries) ==
    LET all == ScanProgress(processed, total_entries)
    IN  IF o = "scanned" THEN {[u EXCEPT !.progress = @ \cup {first} \cup all]}
        ELSE {[u EXCEPT !.progress = @ \cup {first} \cup s] : s \in SUBSET all}

\* The paths of a side that cannot be opened.
Bad(side) == {p \in FilePaths : <<side, p>> \in unreadable}

ScanLocal ==
    /\ pc = "scan_local"
    /\ LET o == ScanOutcome(inbox, callerAlive, EntryCount(local))
           u0 == [E EXCEPT !.inbox = ScanInbox(inbox, callerAlive, EntryCount(local))]
       IN  IF o = "error" \/ ObservedStop(inbox, 1)
           THEN /\ Apply(IF o = "stop" THEN StopU(u0) ELSE ErrorU(u0))
                /\ UNCHANGED <<local_sync_data, local_total>>
           ELSE /\ local_total' = EntryCount(local)
                /\ \E u1 \in ScanSends(u0, Fraction(0, 1), o, Processed(local), EntryCount(local)) :
                      IF o = "stop" THEN Apply(StopU(u1)) /\ UNCHANGED local_sync_data
                      ELSE /\ Apply([u1 EXCEPT !.pc = "scan_remote",
                                               !.hist.staleHash = @ \/ ReusesStaleHash(local, last_sync_data)])
                           /\ local_sync_data' =
                                 scan_directory_with_progress(
                                     Readable(local, Bad("local"), last_sync_data), last_sync_data)
    /\ UNCHANGED <<meta, last_sync_data, remote_sync_data, sync_plan, total_sync_size>>

\* remote_total (sync.rs 73): WalkDir also yields the metadata file, which
\* the scan polls for and then skips (utils.rs 86-88).
RemoteEntryCount == EntryCount(remote) + (IF meta.state = "missing" THEN 0 ELSE 1)

ScanRemote ==
    /\ pc = "scan_remote"
    /\ LET o == ScanOutcome(inbox, callerAlive, RemoteEntryCount)
           u0 == [E EXCEPT !.inbox = ScanInbox(inbox, callerAlive, RemoteEntryCount)]
       IN  IF o = "error" \/ ObservedStop(inbox, 1)
           THEN /\ Apply(IF o = "stop" THEN StopU(u0) ELSE ErrorU(u0))
                /\ UNCHANGED remote_sync_data
           ELSE \E u1 \in ScanSends(u0, Fraction(0, 1), o, Processed(remote), RemoteEntryCount) :
                   IF o = "stop" THEN Apply(StopU(u1)) /\ UNCHANGED remote_sync_data
                   ELSE /\ Apply([u1 EXCEPT !.pc = "plan",
                                            !.hist.staleHash = @ \/ ReusesStaleHash(remote, last_sync_data)])
                        /\ remote_sync_data' =
                              scan_directory_with_progress(
                                  Readable(remote, Bad("remote"), last_sync_data), last_sync_data)
    /\ UNCHANGED <<meta, last_sync_data, local_sync_data, local_total, sync_plan,
                   total_sync_size>>

\* Lines 81-197: the Progress send, the directory plan, the file loop with
\* one check point per path, the total size (every planned source is a file
\* the scan has just seen, so fs::metadata succeeds), the Log of the count.
Plan ==
    /\ pc = "plan"
    /\ LET plan == BuildPlan(local_sync_data, remote_sync_data, last_sync_data)
           n == Cardinality(AllFiles(local_sync_data, remote_sync_data, last_sync_data))
           u0 == [E EXCEPT !.inbox = AfterRecv(inbox, n),
                           !.progress = @ \cup {Fraction(0, 1)}]
       IN  IF ~ callerAlive THEN Apply(ErrorU(E)) /\ UNCHANGED <<sync_plan, total_sync_size>>
           ELSE IF ObservedStop(inbox, n)
           THEN Apply(StopU(u0)) /\ UNCHANGED <<sync_plan, total_sync_size>>
           ELSE /\ sync_plan' = plan
                /\ total_sync_size' = TotalSyncSize(plan, local, remote)
                /\ Apply([u0 EXCEPT !.pc = "exec",
                                    !.remaining = plan,
                                    !.sent = Append(@, Log(IF plan = {} THEN "no_change" ELSE "plan", ""))])
    /\ UNCHANGED <<meta, snapVars>>

\* Lines 202-234: the check point of a batch start, the check point of the
\* action, the Progress send, then the action itself.  The BTreeSet yields
\* the actions in the order of SyncAction's Ord, which the sources do not
\* define: the next action is any remaining one.
ExecFrom(choices) ==
    /\ pc = "exec"
    /\ remaining # {}
    /\ LET index == Cardinality(sync_plan) - Cardinality(remaining)
           n == IF index % BATCH_SIZE = 0 THEN 2 ELSE 1
           u0 == [E EXCEPT !.inbox = AfterRecv(inbox, n)]
       IN  IF ObservedStop(inbox, n) THEN Apply(StopU(u0))
           ELSE IF ~ callerAlive THEN Apply(ErrorU(u0))
           ELSE \E a \in choices, m \in MTimes : Apply(BeginU(AnnounceU(u0, a), a, m))
    /\ UNCHANGED <<meta, snapVars, sync_plan, total_sync_size>>

ExecStep == ExecFrom(remaining)

\* A wait that drops a Stop like any message it does not await.
WaitRecv_DropsStop ==
    /\ pc = "wait"
    /\ IF inbox # <<>>
       THEN LET msg == Head(inbox)
                u0 == [E EXCEPT !.inbox = Tail(inbox)]
            IN  IF cur.kind \in DeleteKinds /\ msg.type = "DeletionConfirmed"
                THEN Apply(DeleteU(u0, cur, msg.a = "true"))
                ELSE IF cur.kind = "Conflict" /\ msg.type = "ConflictResolved"
                THEN \E m \in MTimes : Apply(ResolveU(u0, cur, msg.a, m))
                ELSE Apply(u0)
       ELSE ~ callerAlive /\ Apply(DisconnectedU(E))
    /\ UNCHANGED <<meta, snapVars, sync_plan, total_sync_size>>

\* wait_for_message (sync.rs 14-38) on behalf of the current action: a Stop
\* ends the run, the awaited reply lets the action proceed, any other
\* message is dropped, a disconnected empty channel ends the run.
WaitRecv ==
    /\ pc = "wait"
    /\ IF inbox # <<>>
       THEN LET msg == Head(inbox)
                u0 == [E EXCEPT !.inbox = Tail(inbox)]
            IN  IF msg = Stop THEN Apply(StopU(u0))
                ELSE IF cur.kind \in DeleteKinds /\ msg.type = "DeletionConfirmed"
                THEN Apply(DeleteU(u0, cur, msg.a = "true"))
                ELSE IF cur.kind = "Conflict" /\ msg.type = "ConflictResolved"
                THEN \E m \in MTimes : Apply(ResolveU(u0, cur, msg.a, m))
                ELSE Apply(u0)
       ELSE ~ callerAlive /\ Apply(DisconnectedU(E))
    /\ UNCHANGED <<meta, snapVars, sync_plan, total_sync_size>>

\* One turn of the loop of copy_large_file_with_progress (utils.rs 220-253).
\* The turns between two moments at which a Stop can matter are taken
\* together: the copy is at 0 bytes, after its first buffer, or at the end.
CopyTargets(done, size) == IF done = 0 THEN {Min(COPY_BUFFER, size), size} ELSE {size}

CopyChunk ==
    /\ pc = "copying"
    /\ LET fromSide == FromSide(cur, resolution)
           toSide == Other(fromSide)
           src == Tree(E, fromSide).files[cur.path]
           size == SizeOf(src.c)
           to == Tree(E, toSide)
           u0 == [E EXCEPT !.inbox = AfterRecv(inbox, 1)]
       IN  IF ObservedStop(inbox, 1)
           THEN Apply(CancelCopyU(u0, toSide, cur.path))
           ELSE IF copied = size
           THEN Apply(FinishActionU(u0, cur, CopyTag(cur, resolution)))
           ELSE \E k \in CopyTargets(copied, size), sends \in BOOLEAN :
                   LET st == [c |-> IF k = size THEN src.c ELSE PartialContent,
                              m |-> to.files[cur.path].m]
                       u1 == [SetTree(u0, toSide, WriteFile(to, cur.path, st))
                                 EXCEPT !.copied = k]
                       u2 == [u1 EXCEPT !.progress =
                                 @ \cup {CopyProgress(processed_size, k, total_sync_size)}]
                   IN  /\ sends => total_sync_size > 0
                       /\ (k = size /\ total_sync_size > 0) => sends
                       /\ IF ~ sends THEN Apply(u1)
                          ELSE IF callerAlive THEN Apply(u2)
                          ELSE Apply(ErrorU(u1))
    /\ UNCHANGED <<meta, snapVars, sync_plan, total_sync_size>>

\* A new baseline that keeps the old record of every path the local tree
\* no longer has.
Retain_KeepsOldRecords(data, skipped) ==
    [files |-> [p \in (DOMAIN data.files \cup DOMAIN last_sync_data.files) \ skipped |->
                   IF p \in DOMAIN data.files THEN data.files[p]
                   ELSE last_sync_data.files[p]],
     directories |-> data.directories]

\* files.retain(|path, _| !skipped_files.contains(path)), sync.rs line 401.
Retain(data, skipped) ==
    [files |-> [p \in DOMAIN data.files \ skipped |-> data.files[p]],
     directories |-> data.directories]

\* Lines 395-405: the last check point, the forced re-hash scan of the
\* local tree, the new baseline written to the metadata file.  The scan
\* ignores what its own sends return, so that the next send the run can
\* fail on is the one after the save.
Final ==
    /\ pc = "exec"
    /\ remaining = {}
    /\ LET o == ScanOutcome(inbox, callerAlive, EntryCount(local))
           u0 == [E EXCEPT !.inbox = ScanInbox(inbox, callerAlive, EntryCount(local))]
       IN  IF o = "error" \/ ObservedStop(inbox, 1)
           THEN Apply(IF o = "stop" THEN StopU(u0) ELSE ErrorU(u0)) /\ UNCHANGED meta
           ELSE \E u1 \in ScanSends(u0, Fraction(99, 100), o, Processed(local), local_total) :
                   IF o = "stop" THEN Apply(StopU(u1)) /\ UNCHANGED meta
                   ELSE /\ Apply([u1 EXCEPT !.pc = "final_send"])
                        /\ meta' = [state |-> "ok",
                                    data |-> Retain(scan_directory_with_progress(
                                                        Readable(local, Bad("local"), SyncDataDefault),
                                                        SyncDataDefault),
                                                    skipped_files)]
    /\ UNCHANGED <<snapVars, sync_plan, total_sync_size>>

\* Lines 407-408: tx.send(Progress(1.0, ..))? and Ok(false).
FinalSend ==
    /\ pc = "final_send"
    /\ IF callerAlive
       THEN Apply([E EXCEPT !.pc = "finish", !.result = "ok",
                            !.progress = @ \cup {Fraction(1, 1)}])
       ELSE Apply(ErrorU(E))
    /\ UNCHANGED <<meta, snapVars, sync_plan, total_sync_size>>

\* Lines 409-429: what the run sends last.  An Err is logged and then
\* counts as "not stopped".  rx is dropped when run_sync returns.
FinishMessages(res) ==
    IF res = "error" THEN <<Log("error", ""), Complete>>
    ELSE IF res \in {"stop", "disconnected"} THEN <<Log("stopped", ""), Stopped>>
    ELSE <<Complete>>

\* Lines 411-418: in the Err arm, with both roots given,
\* local_folder.file_name().unwrap() panics when the path has no final
\* component; the thread ends there, after the Log send.
Panics == result = "error" /\ local_folder /\ usb_drive /\ ~ local_named

Finish ==
    /\ pc = "finish"
    /\ pc' = "done"
    /\ inbox' = <<>>
    /\ sent' = IF ~ callerAlive THEN sent
               ELSE IF Panics THEN Append(sent, Log("error", ""))
               ELSE sent \o FinishMessages(result)
    /\ logFile' = IF result = "error" /\ local_folder /\ usb_drive /\ ~ Panics
                  THEN Append(logFile, <<"error", "">>)
                  ELSE logFile
    /\ UNCHANGED <<local, remote, meta, result, local_folder, local_named, usb_drive, snapVars,
                   sync_plan, remaining, cur, resolution, copied, skipped_files,
                   callerAlive, pending, deletion_choice, show_confirmation,
                   show_conflict_resolution, stopSent, total_sync_size,
                   processed_size, file_size, unreadable, scan, progress, hist>>

(***************************************************************************)
(* The caller (app.rs).                                                    *)
(***************************************************************************)
engineVars == <<local, remote, meta, logFile, pc, result, local_folder, local_named, usb_drive,
                snapVars, sync_plan, remaining, cur, resolution, copied,
                skipped_files, sent, total_sync_size, processed_size, file_size,
                unreadable, scan, progress>>

Running == pc \notin {"idle", "done"}

\* app.rs 457-468: the stop button of the main panel, once per run, while
\* no dialog is open.
CallerStop ==
    /\ Running
    /\ callerAlive
    /\ ~ stopSent
    /\ ~ show_confirmation
    /\ ~ show_conflict_resolution
    /\ stopSent' = TRUE
    /\ inbox' = Append(inbox, Stop)
    /\ UNCHANGED <<engineVars, hist, callerAlive, pending, deletion_choice,
                   show_confirmation, show_conflict_resolution>>

\* tx.send(..).ok() on the caller's side: the message is lost when the run
\* has returned and dropped rx.
CallerSend(q, msg) == IF Running THEN Append(q, msg) ELSE q

\* app.rs 105-118: the caller reads a request; a deletion is answered at
\* once when an answer for all deletions was given, a dialog opens otherwise.
\* A caller that opens the dialog for every deletion request.
CallerHandleRequest_AlwaysPrompts ==
    /\ callerAlive
    /\ pending # ""
    /\ pending' = ""
    /\ IF pending = "conflict"
       THEN /\ show_conflict_resolution' = TRUE
            /\ UNCHANGED <<inbox, show_confirmation, hist>>
       ELSE /\ show_confirmation' = TRUE
            /\ UNCHANGED <<inbox, show_conflict_resolution, hist>>
    /\ UNCHANGED <<engineVars, callerAlive, deletion_choice, stopSent>>

CallerHandleRequest ==
    /\ callerAlive
    /\ pending # ""
    /\ pending' = ""
    /\ IF pending = "conflict"
       THEN /\ show_conflict_resolution' = TRUE
            /\ UNCHANGED <<inbox, show_confirmation, hist>>
       ELSE IF deletion_choice # "None"
       THEN /\ inbox' = CallerSend(inbox, DeletionConfirmed(deletion_choice = "true"))
            /\ hist' = [hist EXCEPT !.silent = TRUE]
            /\ UNCHANGED <<show_confirmation, show_conflict_resolution>>
       ELSE /\ show_confirmation' = TRUE
            /\ UNCHANGED <<inbox, show_conflict_resolution, hist>>
    /\ UNCHANGED <<engineVars, callerAlive, deletion_choice, stopSent>>

\* app.rs 171-196: the four buttons of the deletion dialog; forAll is one of
\* the two buttons that fix the answer for the rest of the run.
CallerReplyDeletion(c, forAll) ==
    /\ show_confirmation
    /\ callerAlive
    /\ show_confirmation' = FALSE
    /\ deletion_choice' = IF forAll THEN (IF c THEN "true" ELSE "false") ELSE deletion_choice
    /\ inbox' = CallerSend(inbox, DeletionConfirmed(c))
    /\ UNCHANGED <<engineVars, hist, callerAlive, pending, show_conflict_resolution,
                   stopSent>>

\* app.rs 214-234: the three buttons of the conflict dialog.
CallerReplyConflict(r) ==
    /\ show_conflict_resolution
    /\ callerAlive
    /\ show_conflict_resolution' = FALSE
    /\ inbox' = CallerSend(inbox, ConflictResolved(r))
    /\ UNCHANGED <<engineVars, hist, callerAlive, pending, deletion_choice,
                   show_confirmation, stopSent>>

\* The caller goes away while the run is on: both of its channel ends drop.
CallerDisconnect ==
    /\ Running
    /\ callerAlive
    /\ callerAlive' = FALSE
    /\ pending' = ""
    /\ deletion_choice' = "None"
    /\ show_confirmation' = FALSE
    /\ show_conflict_resolution' = FALSE
    /\ UNCHANGED <<engineVars, hist, inbox, stopSent>>

Next ==
    \/ \E lf \in BOOLEAN, nm \in BOOLEAN, ud \in BOOLEAN : StartRun(lf, nm, ud)
    \/ ScanLocal
    \/ ScanRemote
    \/ Plan
    \/ ExecStep
    \/ WaitRecv
    \/ CopyChunk
    \/ Final
    \/ FinalSend
    \/ Finish
    \/ CallerStop
    \/ CallerHandleRequest
    \/ \E c \in BOOLEAN, forAll \in BOOLEAN : CallerReplyDeletion(c, forAll)
    \/ \E r \in Resolutions : CallerReplyConflict(r)
    \/ CallerDisconnect

Spec == Init /\ [][Next]_vars

(***************************************************************************)
(* The scan, worker by worker (utils.rs 59-183).  par_iter hands every     *)
(* entry of the walk to a worker; the workers share stop_flag, the         *)
(* counter and the channel.  Each entry is a worker of its own here, which *)
(* allows every interleaving a thread pool of any size can produce.        *)
(***************************************************************************)
MetaFile == ".syncu_metadata.json"

Scanning == pc \in {"scan_local", "scan_remote"} /\ scan.workers # <<>>

ScanTree == IF pc = "scan_local" THEN local ELSE remote

\* utils.rs 65-68: the entries WalkDir collects; below the mirror root lies
\* the metadata file as well.
Entries ==
    {Root} \cup ScanTree.dirs \cup DOMAIN ScanTree.files
    \cup (IF pc = "scan_remote" /\ meta.state # "missing" THEN {MetaFile} ELSE {})

TotalEntries == IF pc = "scan_local" THEN local_total ELSE RemoteEntryCount

\* sync.rs 62-66 and 71-75: the check point, the Progress send, the count
\* of the entries, then the workers start.
ScanBegin ==
    /\ pc \in {"scan_local", "scan_remote"}
    /\ scan.workers = <<>>
    /\ LET u0 == [E EXCEPT !.inbox = AfterRecv(inbox, 1)]
       IN  IF ObservedStop(inbox, 1) THEN Apply(StopU(u0)) /\ UNCHANGED local_total
           ELSE IF ~ callerAlive THEN Apply(ErrorU(u0)) /\ UNCHANGED local_total
           ELSE /\ Apply([u0 EXCEPT !.progress = @ \cup {Fraction(0, 1)},
                                    !.scan = [NoScan EXCEPT !.workers = [e \in Entries |-> "poll"]]])
                /\ local_total' = IF pc = "scan_local" THEN EntryCount(local) ELSE local_total
    /\ UNCHANGED <<meta, last_sync_data, local_sync_data, remote_sync_data, sync_plan,
                   total_sync_size>>

\* utils.rs 75-77: the worker takes whatever message is queued and raises
\* the flag when it is Stop.
WorkerPoll(e) ==
    /\ Scanning
    /\ e \in DOMAIN scan.workers
    /\ scan.workers[e] = "poll"
    /\ Apply([E EXCEPT !.inbox = AfterRecv(inbox, 1),
                       !.scan.workers[e] = "check",
                       !.scan.stop_flag = @ \/ ObservedStop(inbox, 1),
                       !.hist.scanStop = @ \/ ObservedStop(inbox, 1)])
    /\ UNCHANGED <<meta, snapVars, sync_plan, total_sync_size>>

\* utils.rs 78-80: the worker gives up its entry when the flag is raised.
WorkerCheck(e) ==
    /\ Scanning
    /\ e \in DOMAIN scan.workers
    /\ scan.workers[e] = "check"
    /\ Apply([E EXCEPT !.scan.workers[e] = IF scan.stop_flag THEN "done" ELSE "run"])
    /\ UNCHANGED <<meta, snapVars, sync_plan, total_sync_size>>

\* utils.rs 82-163: the root and the metadata file are skipped; any other
\* entry is counted and may send a Progress message; a directory is
\* recorded; a file is recorded with the cached hash, or with the hash of
\* its content unless calculate_hash finds the flag raised.
WorkerRun(e) ==
    /\ Scanning
    /\ e \in DOMAIN scan.workers
    /\ scan.workers[e] = "run"
    /\ LET u0 == [E EXCEPT !.scan.workers[e] = "done"]
           current_processed == scan.processed_entries + 1
           u1 == [u0 EXCEPT !.scan.processed_entries = current_processed,
                            !.progress = IF current_processed % 10 = 1 /\ callerAlive
                                         THEN @ \cup {EntryProgress(current_processed, TotalEntries)}
                                         ELSE @]
           st == ScanTree.files[e]
       IN  IF e \in {Root, MetaFile} \/ Scanned({e}) = {} THEN Apply(u0)
           ELSE IF e \in ScanTree.dirs
           THEN Apply([u1 EXCEPT !.scan.directories = @ \cup {e}])
           ELSE IF NeedsHash(st, e, last_sync_data)
                   /\ (scan.stop_flag \/ <<IF pc = "scan_local" THEN "local" ELSE "remote", e>> \in unreadable)
           THEN Apply(u1)
           ELSE Apply([u1 EXCEPT !.scan.results =
                          [p \in DOMAIN @ \cup {e} |->
                              IF p = e
                              THEN [hash |-> ScanHash(st, e, last_sync_data),
                                    modified |-> st.m, size |-> SizeOf(st.c)]
                              ELSE @[p]]])
    /\ UNCHANGED <<meta, snapVars, sync_plan, total_sync_size>>

\* A scan that returns what its workers collected whatever the flag says.
ScanReturn_IgnoresFlag(stop_flag, results, directories) ==
    <<[files |-> results, directories |-> directories]>>

\* utils.rs 166-182: None when the flag is raised, the SyncData otherwise.
ScanReturn(stop_flag, results, directories) ==
    IF stop_flag THEN <<>> ELSE <<[files |-> results, directories |-> directories]>>

\* The workers are joined (utils.rs 164) and run_sync matches on what the
\* scan returns (sync.rs 66-69, 75-79).
ScanJoin ==
    /\ Scanning
    /\ \A e \in DOMAIN scan.workers : scan.workers[e] = "done"
    /\ LET ret == ScanReturn(scan.stop_flag, scan.results, scan.directories)
           u0 == [E EXCEPT !.scan.workers = <<>>]
       IN  IF ret = <<>>
           THEN Apply(StopU(u0)) /\ UNCHANGED <<local_sync_data, remote_sync_data>>
           ELSE /\ Apply([u0 EXCEPT !.pc = IF pc = "scan_local" THEN "scan_remote" ELSE "plan",
                                    !.hist.staleHash = @ \/ ReusesStaleHash(ScanTree, last_sync_data)])
                /\ local_sync_data' = IF pc = "scan_local" THEN ret[1] ELSE local_sync_data
                /\ remote_sync_data' = IF pc = "scan_remote" THEN ret[1] ELSE remote_sync_data
    /\ UNCHANGED <<meta, last_sync_data, local_total, sync_plan, total_sync_size>>

ScanNext ==
    \/ \E lf \in BOOLEAN, nm \in BOOLEAN, ud \in BOOLEAN : StartRun(lf, nm, ud)
    \/ ScanBegin
    \/ \E e \in FilePaths \cup DirPaths \cup {Root, MetaFile} : WorkerPoll(e)
    \/ \E e \in FilePaths \cup DirPaths \cup {Root, MetaFile} : WorkerCheck(e)
    \/ \E e \in FilePaths \cup DirPaths \cup {Root, MetaFile} : WorkerRun(e)
    \/ ScanJoin
    \/ Plan
    \/ Finish
    \/ CallerStop

\* The scans are followed on a mirror that holds what the local tree holds,
\* as a completed run leaves it, under every baseline.
ScanInit == Init /\ remote = local

ScanSpec == ScanInit /\ [][ScanNext]_vars

\* The same over trees that may hold, inside d, a file of the user with the
\* name of the log file.
NameInit == InitOver(Layouts \cup {NameLayout}) /\ unreadable = {} /\ remote = local

NameSpec == NameInit /\ [][ScanNext]_vars

(***************************************************************************)
(* The same program on trees with a directory inside a directory.          *)
(***************************************************************************)
DeepInit == InitOver({DeepLayout}) /\ unreadable = {}

DeepSpec == DeepInit /\ [][Next]_vars

(***************************************************************************)
(* The order of the plan.  sync_plan is a BTreeSet (sync.rs 84) turned     *)
(* into a Vec (178): the executor takes the actions in the order of        *)
(* SyncAction's Ord.  The enum of models.rs under src/ has neither the     *)
(* directory actions nor an Ord, so the order is taken from the planner's  *)
(* ordering rules: deletions deepest path first, creations shallowest path *)
(* first, a directory creation before the copies into it.                  *)
(***************************************************************************)
RECURSIVE Depth(_)
Depth(p) == IF p = Root THEN 0 ELSE 1 + Depth(Parent[p])

\* An order that applies the deletions shallowest path first.
PlanBefore_ShallowestFirst(a, b) ==
    \/ a.kind \in DeleteKinds /\ b.kind \in DeleteKinds /\ Depth(a.path) < Depth(b.path)
    \/ a.kind \in CreateDirKinds /\ b.kind \in CreateDirKinds /\ Depth(a.path) < Depth(b.path)
    \/ a.kind \in CreateDirKinds /\ b.kind \in CopyKinds \cup {"Conflict"}
          /\ StartsWith(b.path, a.path)

\* a comes before b in the plan.
PlanBefore(a, b) ==
    \/ a.kind \in DeleteKinds /\ b.kind \in DeleteKinds /\ Depth(a.path) > Depth(b.path)
    \/ a.kind \in CreateDirKinds /\ b.kind \in CreateDirKinds /\ Depth(a.path) < Depth(b.path)
    \/ a.kind \in CreateDirKinds /\ b.kind \in CopyKinds \cup {"Conflict"}
          /\ StartsWith(b.path, a.path)

\* The actions the iteration over the ordered plan can yield next.
Ready(rem) == {a \in rem : ~ \E b \in rem : PlanBefore(b, a)}

OrderedExecStep == ExecFrom(Ready(remaining))

OrderedNext ==
    \/ \E lf \in BOOLEAN, nm \in BOOLEAN, ud \in BOOLEAN : StartRun(lf, nm, ud)
    \/ ScanLocal
    \/ ScanRemote
    \/ Plan
    \/ OrderedExecStep
    \/ WaitRecv
    \/ CopyChunk
    \/ Final
    \/ FinalSend
    \/ Finish
    \/ CallerStop
    \/ CallerHandleRequest
    \/ \E c \in BOOLEAN, forAll \in BOOLEAN : CallerReplyDeletion(c, forAll)
    \/ \E r \in Resolutions : CallerReplyConflict(r)
    \/ CallerDisconnect

OrderedSpec == DeepInit /\ [][OrderedNext]_vars

(***************************************************************************)
(* Scans and planning over trees some of whose files cannot be opened.     *)
(***************************************************************************)
IoInit ==
    /\ InitOver(Layouts)
    /\ unreadable \in SUBSET ({<<"local", p>> : p \in DOMAIN local.files}
                               \cup {<<"remote", p>> : p \in DOMAIN remote.files})

IoNext ==
    \/ \E lf \in BOOLEAN, nm \in BOOLEAN, ud \in BOOLEAN : StartRun(lf, nm, ud)
    \/ ScanLocal
    \/ ScanRemote
    \/ Plan
    \/ Finish
    \/ CallerStop

IoSpec == IoInit /\ [][IoNext]_vars

(***************************************************************************)
(* Scans and planning over trees with two files, a in the root and d/f in  *)
(* a directory, so that a plan holds several actions that move bytes.  The *)
(* metadata file is missing, corrupt, or the baseline a run over both      *)
(* files has written.                                                      *)
(***************************************************************************)
PairLayout == {"a", "d", "d/f"}

PairBaseline ==
    [files |-> [p \in {"a", "d/f"} |-> FileInfoOf([c |-> 1, m |-> 1])],
     directories |-> {"d"}]

PairInit ==
    /\ InitOver({PairLayout})
    /\ meta.state = "ok" => meta.data = PairBaseline
    /\ unreadable = {}

PairSpec == PairInit /\ [][IoNext]_vars

(***************************************************************************)
(* The whole program with a thread of run_sync that keeps running: the     *)
(* receive of wait_for_message returns after 100 ms at the latest and the  *)
(* loop takes its next turn, and the closure's result is matched as soon   *)
(* as it is returned.  The metadata file is missing, corrupt, or the       *)
(* baseline a run over the layout's file has written.                      *)
(***************************************************************************)
RestrictTo(data, U) ==
    [files |-> [p \in DOMAIN data.files \cap U |-> data.files[p]],
     directories |-> data.directories \cap U]

LiveInit ==
    /\ Init
    /\ meta.state = "ok" => \E U \in Layouts : meta.data = RestrictTo(PairBaseline, U)

LiveSpec == LiveInit /\ [][Next]_vars /\ WF_vars(WaitRecv) /\ WF_vars(Finish)


(***************************************************************************)
(* Properties.                                                             *)
(***************************************************************************)
Range(q) == {q[i] : i \in 1 .. Len(q)}

\* The plan of the current run has been built (it stays in sync_plan).
PlanBuilt == pc \in {"exec", "wait", "copying"}

ActionsFor(plan, p) == {a \in plan : a.path = p}

InAllThree(p) ==
    /\ p \in DOMAIN local_sync_data.files
    /\ p \in DOMAIN remote_sync_data.files
    /\ p \in DOMAIN last_sync_data.files

H0(p) == last_sync_data.files[p].hash
H1(p) == local_sync_data.files[p].hash
H2(p) == remote_sync_data.files[p].hash

\* The plan the next run builds from the trees and the metadata file as
\* they are now, when nothing changes them before it starts.
NextRunPlan ==
    LET s == load_sync_data(meta).data
    IN  BuildPlan(scan_directory_with_progress(local, s),
                  scan_directory_with_progress(remote, s), s)

\* C1: when the baseline, local and remote hashes of a path are pairwise
\* different, the plan holds Conflict for the path and no copy of it in
\* either direction.
C1_ConflictSoundness ==
    PlanBuilt =>
        \A p \in FilePaths :
            (InAllThree(p) /\ H1(p) # H0(p) /\ H2(p) # H0(p) /\ H1(p) # H2(p))
            => /\ Act("Conflict", p) \in sync_plan
               /\ Act("LocalToRemote", p) \notin sync_plan
               /\ Act("RemoteToLocal", p) \notin sync_plan

C1_Witness ==
    /\ PlanBuilt
    /\ \E p \in FilePaths :
          /\ InAllThree(p) /\ H1(p) # H0(p) /\ H2(p) # H0(p) /\ H1(p) # H2(p)
          /\ Act("Conflict", p) \in sync_plan

\* C2 (as claimed): when both sides differ from the baseline hash of a path
\* but agree with each other, the plan holds no action for the path.
C2_ConvergedNoOp ==
    PlanBuilt =>
        \A p \in FilePaths :
            (InAllThree(p) /\ H1(p) # H0(p) /\ H2(p) # H0(p) /\ H1(p) = H2(p))
            => ActionsFor(sync_plan, p) = {}

\* Renaming of hashes by a permutation of the contents, and of modification
\* times by a permutation of the times, in a snapshot.
Rename(data, pi, tau) ==
    [files |-> [p \in DOMAIN data.files |->
                   [hash |-> <<"sha256", pi[data.files[p].hash[2]]>>,
                    modified |-> tau[data.files[p].modified],
                    size |-> data.files[p].size]],
     directories |-> data.directories]

SwapKind(k) ==
    CASE k = "LocalToRemote" -> "RemoteToLocal"
      [] k = "RemoteToLocal" -> "LocalToRemote"
      [] k = "DeleteLocal" -> "DeleteRemote"
      [] k = "DeleteRemote" -> "DeleteLocal"
      [] k = "CreateLocalDir" -> "CreateRemoteDir"
      [] k = "CreateRemoteDir" -> "CreateLocalDir"
      [] k = "DeleteLocalDir" -> "DeleteRemoteDir"
      [] k = "DeleteRemoteDir" -> "DeleteLocalDir"
      [] OTHER -> k

SwapPlan(plan) == {Act(SwapKind(a.kind), a.path) : a \in plan}

\* The exchange of two values, as a renaming of the set S.
Exchange(S, x, y) == [v \in S |-> IF v = x THEN y ELSE IF v = y THEN x ELSE v]
Identity(S) == [v \in S |-> v]
HashNames == 0 .. NumHashes

\* C3: the plan is the same for any two triples of snapshots with the same
\* presence and the same pattern of equal hashes: it does not change when
\* two hash values are exchanged throughout (such exchanges generate every
\* renaming), nor when modification times are renamed on all or on one of
\* the snapshots; and planning with local and remote swapped gives the same
\* plan with the directions exchanged.
C3_PlanDependsOnEqualityAndIsSymmetric ==
    PlanBuilt =>
        /\ \A x \in HashNames, y \in HashNames :
              x < y =>
                 BuildPlan(Rename(local_sync_data, Exchange(HashNames, x, y), Identity(MTimes)),
                           Rename(remote_sync_data, Exchange(HashNames, x, y), Identity(MTimes)),
                           Rename(last_sync_data, Exchange(HashNames, x, y), Identity(MTimes)))
                    = sync_plan
        /\ \A t1 \in MTimes, t2 \in MTimes :
              t1 < t2 =>
                 /\ BuildPlan(Rename(local_sync_data, Identity(HashNames), Exchange(MTimes, t1, t2)),
                              Rename(remote_sync_data, Identity(HashNames), Exchange(MTimes, t1, t2)),
                              Rename(last_sync_data, Identity(HashNames), Exchange(MTimes, t1, t2)))
                       = sync_plan
                 /\ BuildPlan(Rename(local_sync_data, Identity(HashNames), Exchange(MTimes, t1, t2)),
                              remote_sync_data, last_sync_data) = sync_plan
                 /\ BuildPlan(local_sync_data,
                              Rename(remote_sync_data, Identity(HashNames), Exchange(MTimes, t1, t2)),
                              last_sync_data) = sync_plan
        /\ SwapPlan(BuildPlan(remote_sync_data, local_sync_data, last_sync_data)) = sync_plan

C3_Witness ==
    /\ PlanBuilt
    /\ \E p \in FilePaths :
          /\ Act("LocalToRemote", p) \in sync_plan
          /\ Act("RemoteToLocal", p) \in BuildPlan(remote_sync_data, local_sync_data, last_sync_data)
          /\ InAllThree(p)

\* C4 (as claimed): after a run that completes with every deletion confirmed
\* and no conflict skipped, the next run's plan is empty.  The runs looked
\* at are those whose scans saw the true hash of every file.
C4_SecondPlanEmpty ==
    (pc = "done" /\ result = "ok" /\ ~ hist.denied /\ skipped_files = {}
     /\ ~ hist.staleHash)
        => NextRunPlan = {}

\* C5 (as claimed): after a run that ends stopped or on an error, a path in
\* the baseline whose copy the run completed gets no action in the next run.
\* The runs looked at are those whose scans saw the true hash of every file.
C5_CopiedPathNotPlannedAgain ==
    (pc = "done" /\ result \in {"stop", "disconnected", "error"} /\ ~ hist.staleHash)
        => \A p \in hist.copied :
              p \in DOMAIN last_sync_data.files => ActionsFor(NextRunPlan, p) = {}

\* C6: when Stop is received in the chunked copy, the destination path
\* holds no file afterwards, the run is stopped, and it ends with Stopped
\* and without Complete.
C6_CancelledCopyLeavesNoFile ==
    (pc \in {"finish", "done"} /\ result = "stop" /\ hist.stopAt = "copying")
        => /\ cur.path \notin DOMAIN Tree(E, Other(FromSide(cur, resolution))).files
           /\ Complete \notin Range(sent)
           /\ (pc = "done" /\ callerAlive) => sent[Len(sent)] = Stopped

C6_Witness ==
    /\ pc = "done" /\ result = "stop" /\ hist.stopAt = "copying"
    /\ copied > 0 /\ copied < LARGE_FILE_THRESHOLD
    /\ sent # <<>> /\ sent[Len(sent)] = Stopped

\* C7: a Stop taken from the channel always stops the run at that step,
\* that step changes neither tree (but for the copy engine removing its
\* unfinished destination file), nothing changes the trees or the metadata
\* file afterwards, and the run ends with Stopped and without Complete.
C7_StopIsFinal ==
    [][ /\ (Stop \in Range(inbox) /\ Stop \notin Range(inbox') /\ pc # "finish")
            => (result' = "stop" /\ pc' = "finish")
        /\ (result # "stop" /\ result' = "stop")
            => \/ (local' = local /\ remote' = remote /\ meta' = meta)
               \/ (pc = "copying" /\ meta' = meta
                   /\ LET toSide == Other(FromSide(cur, resolution))
                      IN  /\ Tree(E, Other(toSide)) = (IF toSide = "local" THEN remote' ELSE local')
                          /\ (IF toSide = "local" THEN local' ELSE remote')
                                = remove_file(Tree(E, toSide), cur.path))
        /\ result = "stop" => (local' = local /\ remote' = remote /\ meta' = meta)
        /\ (pc' = "done" /\ result' = "stop")
            => /\ Complete \notin Range(sent')
               /\ callerAlive' => sent'[Len(sent')] = Stopped
      ]_vars

C7_Witness ==
    /\ pc = "done" /\ result = "stop"
    /\ remaining # {}
    /\ logFile # <<>>
    /\ sent[Len(sent)] = Stopped

\* C8 (as claimed): a run that hit an error never sends Complete.
C8_ErrorNeverComplete ==
    (pc = "done" /\ result = "error") => Complete \notin Range(sent)

\* C9 (as claimed): with both roots set, loading the baseline cannot fail
\* the run: a missing and a corrupt metadata file both give the empty
\* Snapshot and the run goes on to scan.
C9_LoadNeverFails ==
    [][ (pc \in {"idle", "done"} /\ pc' \notin {"idle", "done"}
         /\ local_folder' /\ usb_drive' /\ meta.state \in {"missing", "corrupt"})
            => (pc' = "scan_local" /\ last_sync_data' = SyncDataDefault)
      ]_vars

Removed(t, tn) ==
    {<<"file", p>> : p \in DOMAIN t.files \ DOMAIN tn.files}
    \cup {<<"dir", d>> : d \in t.dirs \ tn.dirs}

\* C10: a step of a delete action removes something from a tree only when
\* the run has sent ConfirmDeletion for the action's absolute path and is
\* now receiving DeletionConfirmed(true); what it removes is on the action's
\* side and is the path, something below it or, for a file, an ancestor;
\* outside the copy engine no other step removes anything.
C10_NoDeletionWithoutConsent ==
    [][ ((Removed(local, local') \cup Removed(remote, remote')) # {} /\ pc # "copying")
            => /\ pc = "wait"
               /\ cur.kind \in DeleteKinds
               /\ inbox # <<>>
               /\ Head(inbox) = DeletionConfirmed(TRUE)
               /\ ConfirmDeletion(DeleteSide(cur), cur.path) \in Range(sent)
               /\ Removed(Tree(E, Other(DeleteSide(cur))),
                          IF DeleteSide(cur) = "local" THEN remote' ELSE local') = {}
               /\ \A x \in Removed(Tree(E, DeleteSide(cur)),
                                   IF DeleteSide(cur) = "local" THEN local' ELSE remote') :
                     \/ StartsWith(x[2], cur.path)
                     \/ (cur.kind \in DeleteFileKinds /\ StartsWith(cur.path, x[2]))
      ]_vars

C10_Witness ==
    /\ \E p \in FilePaths :
          /\ Log("deleted_local", p) \in Range(sent)
          /\ ConfirmDeletion("local", p) \in Range(sent)
          /\ p \notin DOMAIN local.files
          /\ Parent[p] # Root
          /\ Parent[p] \notin local.dirs
    /\ pc = "done"

\* The path p is the only path of the three snapshots: a single file in the
\* root and no directory.
Alone(p) ==
    /\ AllFiles(local_sync_data, remote_sync_data, last_sync_data) = {p}
    /\ AllDirs(local_sync_data, remote_sync_data, last_sync_data) = {}

\* The step appends the line <<tag, p>> to the durable log.
Logs(tag, p) ==
    /\ Len(logFile') = Len(logFile) + 1
    /\ logFile'[Len(logFile')] = <<tag, p>>

\* C11: a path in the baseline and local but not on remote gets DeleteLocal,
\* which is the whole plan when the path is alone; the step that receives
\* DeletionConfirmed(false) changes neither tree, logs the cancellation and
\* leaves the run running; and after such a run has completed, the next
\* run's plan holds DeleteLocal for the path again.
C11_DeniedLocalDeletion ==
    [][ \A p \in FilePaths :
          /\ (PlanBuilt /\ p \in DOMAIN local_sync_data.files
                /\ p \notin DOMAIN remote_sync_data.files
                /\ p \in DOMAIN last_sync_data.files)
                => /\ ActionsFor(sync_plan, p) = {Act("DeleteLocal", p)}
                   /\ Alone(p) => sync_plan = {Act("DeleteLocal", p)}
          /\ (pc = "wait" /\ cur = Act("DeleteLocal", p) /\ inbox # <<>>
                /\ Head(inbox) = DeletionConfirmed(FALSE) /\ inbox' = Tail(inbox))
                => /\ local' = local /\ remote' = remote
                   /\ callerAlive
                        => /\ pc' = "exec" /\ result' = "running"
                           /\ Logs("cancel_delete", p)
                           /\ sent' = Append(sent, Log("cancel_delete", p))
          /\ (pc' = "done" /\ result' = "ok" /\ sync_plan' = {Act("DeleteLocal", p)}
                /\ <<"cancel_delete", p>> \in Range(logFile'))
                => /\ p \in DOMAIN local'.files
                   /\ Act("DeleteLocal", p) \in NextRunPlan'
      ]_vars

C11_Witness ==
    /\ pc = "done" /\ result = "ok"
    /\ sync_plan = {Act("DeleteLocal", "a")}
    /\ <<"cancel_delete", "a">> \in Range(logFile)
    /\ "a" \in DOMAIN local.files
    /\ sent[Len(sent)] = Complete
    /\ Act("DeleteLocal", "a") \in NextRunPlan

\* C12 (as claimed): the step that receives ConflictResolved(Skip) changes
\* neither tree; after a completed run the saved baseline has no record for a
\* skipped path, and the next run's plan holds Conflict for it again.
C12_SkippedConflictReappears ==
    [][ \A p \in FilePaths :
          /\ (pc = "wait" /\ cur = Act("Conflict", p) /\ inbox # <<>>
                /\ Head(inbox) = ConflictResolved("Skip") /\ inbox' = Tail(inbox))
                => (local' = local /\ remote' = remote)
          /\ (pc' = "done" /\ result' = "ok" /\ p \in skipped_files')
                => /\ meta'.state = "ok"
                   /\ p \notin DOMAIN meta'.data.files
                   /\ Act("Conflict", p) \in NextRunPlan'
      ]_vars

\* C13: a path whose three hashes are pairwise different gets Conflict, which
\* is the whole plan when the path is alone; the step that completes the
\* copy of a conflict resolved KeepLocal leaves the local tree as it was and
\* makes the remote content the local one (KeepRemote the other way round);
\* and after such a run has completed, the next run's plan holds no action
\* for the path.
C13_ResolvedConflict ==
    [][ \A p \in FilePaths :
          /\ (PlanBuilt /\ InAllThree(p) /\ H1(p) # H0(p) /\ H2(p) # H0(p) /\ H1(p) # H2(p))
                => /\ ActionsFor(sync_plan, p) = {Act("Conflict", p)}
                   /\ Alone(p) => sync_plan = {Act("Conflict", p)}
          /\ Logs("keep_local", p)
                => (local' = local /\ remote'.files[p].c = local.files[p].c)
          /\ Logs("keep_remote", p)
                => (remote' = remote /\ local'.files[p].c = remote.files[p].c)
          /\ (pc' = "done" /\ result' = "ok"
                /\ (<<"keep_local", p>> \in Range(logFile')
                    \/ <<"keep_remote", p>> \in Range(logFile')))
                => /\ local'.files[p].c = remote'.files[p].c
                   /\ ActionsFor(NextRunPlan', p) = {}
      ]_vars

C13_Witness ==
    /\ pc = "done" /\ result = "ok"
    /\ sync_plan = {Act("Conflict", "a")}
    /\ InAllThree("a")
    /\ H1("a") # H0("a") /\ H2("a") # H0("a") /\ H1("a") # H2("a")
    /\ <<"keep_local", "a">> \in Range(logFile)
    /\ remote.files["a"].c = local.files["a"].c
    /\ local_sync_data.files["a"].hash = calculate_hash(local.files["a"].c)
    /\ NextRunPlan = {}

\* C14: with a file only in the local tree, nothing on remote and no
\* baseline, the plan is LocalToRemote of the file and nothing else; after
\* the run has completed, the remote content of the file is the local one
\* and the saved baseline holds a record of the file with its hash.
C14_FirstSync ==
    [][ \A p \in FilePaths :
          /\ (PlanBuilt /\ Alone(p) /\ p \in DOMAIN local_sync_data.files
                /\ remote_sync_data = SyncDataDefault /\ last_sync_data = SyncDataDefault)
                => sync_plan = {Act("LocalToRemote", p)}
          /\ (pc' = "done" /\ result' = "ok" /\ sync_plan' = {Act("LocalToRemote", p)}
                /\ last_sync_data' = SyncDataDefault)
                => /\ p \in DOMAIN remote'.files
                   /\ remote'.files[p].c = local'.files[p].c
                   /\ meta'.state = "ok"
                   /\ p \in DOMAIN meta'.data.files
                   /\ meta'.data.files[p].hash = calculate_hash(local'.files[p].c)
      ]_vars

C14_Witness ==
    /\ pc = "done" /\ result = "ok"
    /\ sync_plan = {Act("LocalToRemote", "a")}
    /\ last_sync_data = SyncDataDefault /\ remote_sync_data = SyncDataDefault
    /\ remote.files["a"].c = local.files["a"].c
    /\ meta.state = "ok" /\ "a" \in DOMAIN meta.data.files

\* The run has ended and the last message the caller got is Complete.
EndsComplete == pc = "done" /\ sent # <<>> /\ sent[Len(sent)] = Complete

\* The metadata file holds the forced re-hash scan of the local tree as it
\* is now, without the skipped paths.
BaselineIsLocalTree ==
    /\ meta.state = "ok"
    /\ DOMAIN meta.data.files = DOMAIN local.files \ skipped_files
    /\ \A p \in DOMAIN meta.data.files :
          meta.data.files[p].hash = calculate_hash(local.files[p].c)

\* C15 (as claimed): after every run that ends Complete, the files of the
\* persisted baseline are the files of the local tree minus the paths
\* skipped in the run, each with the hash of its current content.
C15_BaselineIsFinalLocalTree ==
    (EndsComplete /\ local_folder /\ usb_drive) => BaselineIsLocalTree

\* The baseline has a record of path p with the size and the modification
\* time the file st has now.
CacheHit(st, p) ==
    /\ p \in DOMAIN last_sync_data.files
    /\ last_sync_data.files[p].size = SizeOf(st.c)
    /\ last_sync_data.files[p].modified = st.m

\* The snapshot data holds, for every file of tree, the cached hash on a
\* cache hit and the hash of the file's content otherwise.
CacheRespected(tree, data) ==
    \A p \in DOMAIN tree.files :
        /\ p \in DOMAIN data.files
        /\ data.files[p].hash =
              IF CacheHit(tree.files[p], p) THEN last_sync_data.files[p].hash
              ELSE calculate_hash(tree.files[p].c)

\* C17: once both trees are scanned, every scanned record whose path has a
\* baseline record of equal size and modification time carries the
\* baseline's hash, and every other record the hash of the file's content.
C17_HashCacheCorrect ==
    pc = "plan" => (CacheRespected(local, local_sync_data)
                    /\ CacheRespected(remote, remote_sync_data))

C17_Witness ==
    /\ pc = "plan"
    /\ \E p \in DOMAIN local.files :
          /\ CacheHit(local.files[p], p)
          /\ local_sync_data.files[p].hash # calculate_hash(local.files[p].c)
    /\ \E p \in DOMAIN remote.files :
          /\ ~ CacheHit(remote.files[p], p)
          /\ p \in DOMAIN last_sync_data.files

\* The terminal message the run sends (or tries to send) for its outcome.
TerminalMessage(res) == FinishMessages(res)[Len(FinishMessages(res))]

\* C18: a wait whose channel is empty and whose caller is gone ends at
\* once: the run leaves through the stopped exit, the pending action changes
\* neither tree nor the metadata file, nothing changes them afterwards, and
\* the terminal message is Stopped, not Complete.
C18_DisconnectedWaitIsStop ==
    [][ /\ (pc = "wait" /\ inbox = <<>> /\ ~ callerAlive /\ pc' # "wait")
            => /\ pc' = "finish" /\ result' = "disconnected"
               /\ local' = local /\ remote' = remote /\ meta' = meta
               /\ cur' = cur /\ cur \in remaining'
               /\ TerminalMessage(result') = Stopped
        /\ result = "disconnected"
            => /\ local' = local /\ remote' = remote /\ meta' = meta
               /\ Complete \notin Range(sent')
      ]_vars

C18_Witness ==
    /\ pc = "done" /\ result = "disconnected"
    /\ cur.kind = "DeleteLocal"
    /\ cur.path \in DOMAIN local.files
    /\ ConfirmDeletion("local", cur.path) \in Range(sent)
    /\ TerminalMessage(result) = Stopped

\* C19 (as claimed): once the caller is unreachable the run changes neither
\* tree nor the metadata file any more, and it ends as stopped, not as
\* completed.
C19_UnreachableCallerIsStop ==
    [][ /\ (result = "running" /\ ~ callerAlive /\ result' # "running")
            => /\ result' \in {"stop", "disconnected"}
               /\ TerminalMessage(result') = Stopped
        /\ (~ callerAlive /\ callerAlive' = callerAlive /\ pc # "copying")
            => (local' = local /\ remote' = remote /\ meta' = meta)
      ]_vars

\* A pair <<n, d>> stands for a fraction of the unit interval.
InUnitInterval(f) == f[2] > 0 /\ 0 <= f[1] /\ f[1] <= f[2]

\* C20: every Progress message the engine sends carries a fraction in
\* [0,1], in every phase: the initial scans, the final baseline scan, the
\* per-action progress and the progress of a chunked copy.
C20_ProgressInUnitInterval ==
    \A f \in progress : InUnitInterval(f)

\* The scan of this run that returned, returned the whole tree.
WholeTree(data, tree) == data = scan_directory_with_progress(tree, last_sync_data)

\* C16: scanner cancellation is all-or-nothing.  Once a worker of a scan has
\* taken Stop from the channel and the workers are joined, the run is on its
\* Stopped exit, whatever the workers had collected, and ends with Stopped;
\* and a run that goes on to the next scan or to the planner holds the
\* snapshot of the whole tree, never of a part of it.
C16_ScanCancellationAllOrNothing ==
    /\ (hist.scanStop /\ ~ Scanning)
          => /\ pc \in {"finish", "done"}
             /\ result = "stop"
             /\ hist.stopAt = "scan_local" => local_sync_data = SyncDataDefault
             /\ remote_sync_data = SyncDataDefault
             /\ sync_plan = {}
             /\ pc = "done" => sent[Len(sent)] = Stopped
    /\ pc \in {"scan_remote", "plan", "exec"} => WholeTree(local_sync_data, local)
    /\ pc \in {"plan", "exec"} => WholeTree(remote_sync_data, remote)

\* A cancelled scan of a directory holding a file, one of whose workers had
\* recorded its entry while another gave its entry up.
C16_Witness ==
    /\ pc = "done"
    /\ result = "stop"
    /\ hist.scanStop
    /\ scan.directories = {"d"}
    /\ scan.results = <<>>
    /\ "d/f" \in DOMAIN (IF hist.stopAt = "scan_local" THEN local ELSE remote).files

\* The snapshot and baseline records of a path.
InLocal(p) == p \in DOMAIN local_sync_data.files
InRemote(p) == p \in DOMAIN remote_sync_data.files
InLast(p) == p \in DOMAIN last_sync_data.files

\* C22: for a path present in local, remote and baseline, a change of the
\* local hash alone plans exactly the copy to the mirror, a change of the
\* remote hash alone exactly the copy to the local tree, no change no action.
C22_OneSidedChange ==
    PlanBuilt =>
        \A p \in FilePaths :
            InAllThree(p) =>
                /\ (H1(p) # H0(p) /\ H2(p) = H0(p))
                      => ActionsFor(sync_plan, p) = {Act("LocalToRemote", p)}
                /\ (H1(p) = H0(p) /\ H2(p) # H0(p))
                      => ActionsFor(sync_plan, p) = {Act("RemoteToLocal", p)}
                /\ (H1(p) = H0(p) /\ H2(p) = H0(p))
                      => ActionsFor(sync_plan, p) = {}

C22_Witness ==
    /\ PlanBuilt
    /\ \E p \in FilePaths :
          /\ InAllThree(p) /\ H1(p) = H0(p) /\ H2(p) # H0(p)
          /\ sync_plan = {Act("RemoteToLocal", p)}

\* C23: for a path without a baseline record, equal hashes on both sides
\* plan nothing, different hashes plan Conflict, a file on the local side
\* only plans the copy to the mirror, a file on the mirror only the copy to
\* the local tree.
C23_NoBaselineRows ==
    PlanBuilt =>
        \A p \in FilePaths :
            ~ InLast(p) =>
                /\ (InLocal(p) /\ InRemote(p) /\ H1(p) = H2(p))
                      => ActionsFor(sync_plan, p) = {}
                /\ (InLocal(p) /\ InRemote(p) /\ H1(p) # H2(p))
                      => ActionsFor(sync_plan, p) = {Act("Conflict", p)}
                /\ (InLocal(p) /\ ~ InRemote(p))
                      => ActionsFor(sync_plan, p) = {Act("LocalToRemote", p)}
                /\ (~ InLocal(p) /\ InRemote(p))
                      => ActionsFor(sync_plan, p) = {Act("RemoteToLocal", p)}

\* Scenario B: the file is on both sides with one hash, there is no
\* baseline, the plan is empty.
C23_Witness ==
    /\ PlanBuilt
    /\ last_sync_data = SyncDataDefault
    /\ InLocal("a") /\ InRemote("a") /\ H1("a") = H2("a")
    /\ sync_plan = {}

\* C24: for a path with a baseline record, a file present locally and gone
\* from the mirror plans DeleteLocal whatever its local hash, a file gone
\* locally and present on the mirror plans DeleteRemote, a file gone from
\* both sides plans nothing.
C24_DeletionPropagation ==
    PlanBuilt =>
        \A p \in FilePaths :
            InLast(p) =>
                /\ (InLocal(p) /\ ~ InRemote(p))
                      => ActionsFor(sync_plan, p) = {Act("DeleteLocal", p)}
                /\ (~ InLocal(p) /\ InRemote(p))
                      => ActionsFor(sync_plan, p) = {Act("DeleteRemote", p)}
                /\ (~ InLocal(p) /\ ~ InRemote(p))
                      => ActionsFor(sync_plan, p) = {}

\* A file modified locally since the baseline and deleted on the mirror.
C24_Witness ==
    /\ PlanBuilt
    /\ \E p \in FilePaths :
          /\ InLast(p) /\ InLocal(p) /\ ~ InRemote(p)
          /\ H1(p) # H0(p)
          /\ Act("DeleteLocal", p) \in sync_plan

\* The presence of a directory in the two snapshots and the baseline.
DirPresence(d) ==
    <<d \in local_sync_data.directories, d \in remote_sync_data.directories,
      d \in last_sync_data.directories>>

\* The classification of a directory as the table states it.
DirClass(d) ==
    IF DirPresence(d) = <<TRUE, FALSE, FALSE>> THEN "CreateRemoteDir"
    ELSE IF DirPresence(d) = <<FALSE, TRUE, FALSE>> THEN "CreateLocalDir"
    ELSE IF DirPresence(d) = <<TRUE, FALSE, TRUE>> THEN "DeleteLocalDir"
    ELSE IF DirPresence(d) = <<FALSE, TRUE, TRUE>> THEN "DeleteRemoteDir"
    ELSE "None"

Related(x, d) == StartsWith(x, d) \/ StartsWith(d, x)

\* C26: a directory action of the plan is the one the presence of its
\* directory in local, remote and baseline calls for (create on the mirror
\* for local only, create locally for mirror only, delete locally for
\* baseline and local, delete on the mirror for baseline and mirror), a
\* directory of any other presence has no action, and a directory that is
\* called for has its action in the plan, itself or through the directory
\* above or below it that stands for it after pruning.
C26_DirectoryClassification ==
    PlanBuilt =>
        \A d \in DirPaths :
            /\ \A a \in ActionsFor(sync_plan, d) : a.kind = DirClass(d)
            /\ DirClass(d) # "None"
                  => \E x \in DirPaths :
                        /\ Related(x, d)
                        /\ DirClass(x) = DirClass(d)
                        /\ Act(DirClass(d), x) \in sync_plan

\* A plan with the four kinds of presence on record: d is deleted on the
\* mirror side while d/e, new on the mirror, is created locally.
C26_Witness ==
    /\ PlanBuilt
    /\ DirPresence("d") = <<FALSE, TRUE, TRUE>>
    /\ DirPresence("d/e") = <<FALSE, TRUE, FALSE>>
    /\ Act("DeleteRemoteDir", "d") \in sync_plan
    /\ Act("CreateLocalDir", "d/e") \in sync_plan

\* x is a candidate of kind k other than d and above d, or below d.
CandidateAbove(k, d) ==
    \E x \in DirPaths : x # d /\ DirClass(x) = k /\ StartsWith(d, x)
CandidateBelow(k, d) ==
    \E x \in DirPaths : x # d /\ DirClass(x) = k /\ StartsWith(x, d)

\* C27 (as claimed): the creations planned for a side are the topmost
\* candidates, a candidate being kept exactly when no other candidate of
\* the side is a proper ancestor of it.
C27_CreationKeepsTopmost ==
    PlanBuilt =>
        \A k \in CreateDirKinds, d \in DirPaths :
            Act(k, d) \in sync_plan <=> (DirClass(d) = k /\ ~ CandidateAbove(k, d))

\* C27 (amended): the creations planned for a side are the deepest
\* candidates, a candidate being kept exactly when no other candidate of
\* the side is a proper descendant of it.
C27_CreationKeepsDeepest ==
    PlanBuilt =>
        \A k \in CreateDirKinds, d \in DirPaths :
            Act(k, d) \in sync_plan <=> (DirClass(d) = k /\ ~ CandidateBelow(k, d))

\* d and d/e are both to be created on the mirror; the plan holds d/e.
C27_Witness ==
    /\ PlanBuilt
    /\ DirClass("d") = "CreateRemoteDir"
    /\ DirClass("d/e") = "CreateRemoteDir"
    /\ Act("CreateRemoteDir", "d/e") \in sync_plan
    /\ Act("CreateRemoteDir", "d") \notin sync_plan

\* C28: the deletions planned for a side are the topmost candidates, a
\* candidate being kept exactly when no other candidate of the side is a
\* proper ancestor of it; the plan never holds two directory deletions of
\* one side with one path inside the other.
C28_DeletionKeepsTopmost ==
    PlanBuilt =>
        /\ \A k \in DeleteDirKinds, d \in DirPaths :
               Act(k, d) \in sync_plan <=> (DirClass(d) = k /\ ~ CandidateAbove(k, d))
        /\ \A a \in sync_plan, b \in sync_plan :
               (a.kind \in DeleteDirKinds /\ a.kind = b.kind /\ a # b)
                   => ~ Related(a.path, b.path)

\* d and d/e are both gone from the mirror; the plan holds the deletion of
\* d on the local side and not that of d/e.
C28_Witness ==
    /\ PlanBuilt
    /\ DirClass("d") = "DeleteLocalDir"
    /\ DirClass("d/e") = "DeleteLocalDir"
    /\ Act("DeleteLocalDir", "d") \in sync_plan
    /\ Act("DeleteLocalDir", "d/e") \notin sync_plan

\* The step writes the file p of a tree: the file is new or not as it was.
Written(t, tn, p) ==
    /\ p \in DOMAIN tn.files
    /\ p \notin DOMAIN t.files \/ tn.files[p] # t.files[p]

\* C30: whatever the order of the plan, when a step writes a destination
\* file, every directory above the file exists in the destination tree.
C30_CopyTargetHasParent ==
    [][ \A p \in FilePaths :
           /\ Written(local, local', p) => Ancestors(p) \subseteq local'.dirs
           /\ Written(remote, remote', p) => Ancestors(p) \subseteq remote'.dirs
      ]_vars

\* The copy of d/e/g to the mirror is done while the creation of d/e on
\* the mirror is still to come in the plan.
C30_Witness ==
    /\ pc = "exec"
    /\ "d/e/g" \in hist.copied
    /\ Act("CreateRemoteDir", "d/e") \in remaining
    /\ "d/e/g" \in DOMAIN remote.files
    /\ {"d", "d/e"} \subseteq remote.dirs

\* The step takes the action a from the plan and begins it.
Begun(a) ==
    /\ pc = "exec"
    /\ a \in remaining
    /\ a \notin remaining' \/ (cur' = a /\ pc' \in {"wait", "copying"})

Executing == pc \in {"exec", "wait", "copying"}

\* The step finishes an action: the action leaves the plan, or its copy is
\* complete, or its deletion is applied or denied, or its conflict skipped.
Finishes ==
    /\ Executing
    /\ \/ remaining' # remaining
       \/ hist'.copied # hist.copied
       \/ hist'.denied # hist.denied
       \/ skipped_files' # skipped_files
       \/ /\ pc = "wait"
          /\ cur.kind \in DeleteKinds
          /\ local' # local \/ remote' # remote

\* The step appends one line to the durable log and sends the same line,
\* and nothing else, to the caller.
OneLine ==
    /\ Len(logFile') = Len(logFile) + 1
    /\ SubSeq(logFile', 1, Len(logFile)) = logFile
    /\ Len(sent') = Len(sent) + 1
    /\ SubSeq(sent', 1, Len(sent)) = sent
    /\ sent'[Len(sent')] = Log(logFile'[Len(logFile')][1], logFile'[Len(logFile')][2])

\* C21: every action that finishes (a copy applied, a deletion confirmed
\* or denied, a directory created, a conflict resolved or skipped) sends
\* one Log message and appends that one line to the durable log, in the
\* order the actions are taken; a step that ends the run on a Stop sends
\* and appends nothing.
C21_OneLogLinePerAction ==
    [][ /\ Finishes => OneLine
        /\ (Executing /\ result = "running" /\ result' \in {"stop", "disconnected"})
              => (logFile' = logFile /\ sent' = sent)
      ]_vars

\* The same with a caller that holds its channel ends.
C21_WhileCallerAlive ==
    [][ callerAlive =>
          /\ Finishes => OneLine
          /\ (Executing /\ result = "running" /\ result' \in {"stop", "disconnected"})
                => (logFile' = logFile /\ sent' = sent)
      ]_vars

\* C25: a file that cannot be read never goes missing from a snapshot:
\* once the scan of a side has returned, the snapshot holds a record for
\* every file of the tree, and no plan deletes or overwrites on the other
\* side the counterpart of a file that could not be read.
C25_UnreadableFileAbortsRun ==
    /\ pc \in {"scan_remote", "plan", "exec"}
          => DOMAIN local_sync_data.files = DOMAIN local.files
    /\ pc \in {"plan", "exec"}
          => DOMAIN remote_sync_data.files = DOMAIN remote.files
    /\ pc = "exec"
          => \A p \in FilePaths :
                /\ (<<"local", p>> \in unreadable /\ ~ InLocal(p))
                      => ActionsFor(sync_plan, p) = {}
                /\ (<<"remote", p>> \in unreadable /\ ~ InRemote(p))
                      => ActionsFor(sync_plan, p) = {}

\* The deletion on the mirror of a file that is still there locally and
\* could not be read.
C25_DeletionPlanned ==
    ~ (/\ pc = "exec"
       /\ <<"local", "a">> \in unreadable
       /\ "a" \in DOMAIN local.files
       /\ Act("DeleteRemote", "a") \in sync_plan)

\* The sum of the values of a function.
RECURSIVE Sum(_)
Sum(f) ==
    IF DOMAIN f = {} THEN 0
    ELSE LET x == CHOOSE y \in DOMAIN f : TRUE
         IN  f[x] + Sum([y \in DOMAIN f \ {x} |-> f[y]])

\* The bytes the plan is to move for the path p, by the sizes on disk.
TransferSize(p) ==
    IF Act("LocalToRemote", p) \in sync_plan \/ Act("Conflict", p) \in sync_plan
    THEN SizeOf(local.files[p].c)
    ELSE IF Act("RemoteToLocal", p) \in sync_plan
    THEN SizeOf(remote.files[p].c)
    ELSE 0

\* The plan is built and none of its actions has begun.
PlanFresh == pc = "exec" /\ remaining = sync_plan

\* C31: the total transfer size of a plan is the sum, over its paths, of
\* the local file's size for a LocalToRemote and for a Conflict, of the
\* remote file's size for a RemoteToLocal, and of nothing for the deletions
\* and the directory actions.
C31_TotalTransferSize ==
    PlanFresh => total_sync_size = Sum([p \in FilePaths |-> TransferSize(p)])

\* A plan with a Conflict whose two copies differ in size, a copy of the
\* other file, and a directory action or a deletion.
C31_Witness ==
    /\ PlanFresh
    /\ \E p \in FilePaths, q \in FilePaths :
          /\ p # q
          /\ Act("Conflict", p) \in sync_plan
          /\ SizeOf(local.files[p].c) # SizeOf(remote.files[p].c)
          /\ Act("RemoteToLocal", q) \in sync_plan
          /\ total_sync_size = SizeOf(local.files[p].c) + SizeOf(remote.files[q].c)
    /\ \E a \in sync_plan : a.kind \in CreateDirKinds \cup DeleteKinds

\* The step begins the copy of the action a under the resolution res: a
\* planned copy taken from the plan, or a Conflict whose reply, KeepLocal
\* or KeepRemote, is received.
CopyBegins(a, res) ==
    \/ /\ a.kind \in CopyKinds
       /\ res = ""
       /\ Begun(a)
    \/ /\ a.kind = "Conflict"
       /\ res \in {"KeepLocal", "KeepRemote"}
       /\ pc = "wait"
       /\ cur = a
       /\ inbox # <<>>
       /\ Head(inbox) = ConflictResolved(res)
       /\ inbox' = Tail(inbox)

\* The step writes the whole source file of a to the other side and does
\* not enter the chunked copy.
CopiedDirectly(a, res) ==
    LET from == Tree(E, FromSide(a, res))
        to == IF FromSide(a, res) = "local" THEN remote' ELSE local'
    IN  /\ pc' # "copying"
        /\ a.path \in DOMAIN to.files
        /\ to.files[a.path].c = from.files[a.path].c

\* The step enters the chunked copy of a: the destination is created empty
\* and nothing is copied yet.
EntersCopyEngine(a, res) ==
    LET to == IF FromSide(a, res) = "local" THEN remote' ELSE local'
    IN  /\ pc' = "copying"
        /\ cur' = a
        /\ resolution' = res
        /\ copied' = 0
        /\ a.path \in DOMAIN to.files
        /\ to.files[a.path].c = PartialContent

\* C32: a copy whose source file is at most LARGE_FILE_THRESHOLD bytes long,
\* the threshold included, is done directly; a copy of a longer source
\* enters the chunked, cancelable copy; the planned copies and the copies
\* done for KeepLocal and KeepRemote follow the same rule.
C32_CopyRoutingBySize ==
    [][ \A a \in sync_plan, res \in {"", "KeepLocal", "KeepRemote"} :
           (CopyBegins(a, res) /\ a.path \in DOMAIN Tree(E, FromSide(a, res)).files)
               => LET size == SizeOf(Tree(E, FromSide(a, res)).files[a.path].c)
                  IN  /\ size <= LARGE_FILE_THRESHOLD => CopiedDirectly(a, res)
                      /\ size > LARGE_FILE_THRESHOLD => EntersCopyEngine(a, res)
      ]_vars

\* A conflict resolved with KeepRemote whose mirror file, exactly
\* LARGE_FILE_THRESHOLD bytes long, is now the local file as well, the
\* chunked copy not having run.
C32_Witness ==
    /\ pc = "exec"
    /\ \E p \in FilePaths :
          /\ Act("Conflict", p) \in sync_plan
          /\ <<"keep_remote", p>> \in Range(logFile)
          /\ p \in DOMAIN remote.files
          /\ SizeOf(remote.files[p].c) = LARGE_FILE_THRESHOLD
          /\ p \in DOMAIN local.files
          /\ local.files[p].c = remote.files[p].c
          /\ processed_size = LARGE_FILE_THRESHOLD

\* The step is the start of a run.
RunStarts == pc \in {"idle", "done"} /\ pc' \notin {"idle", "done"}

\* The caller reads a ConfirmDeletion request in this step.
ReadsDeletionRequest ==
    callerAlive /\ callerAlive' /\ pending = "deletion" /\ pending' = ""

\* The queued replies to deletion requests.
QueuedReplies(q) == {q[i] : i \in {j \in 1 .. Len(q) : q[j].type = "DeletionConfirmed"}}

\* C33: once the caller has answered a deletion dialog with "delete all" or
\* "keep all", the answer stays what it is until the next run starts, which
\* clears it; every deletion request the caller reads meanwhile opens no
\* dialog and is answered at once with one DeletionConfirmed carrying that
\* answer, and no other reply to a deletion request is in the channel.
C33_BlanketDeletionChoice ==
    [][ /\ (show_confirmation /\ deletion_choice' # deletion_choice /\ callerAlive')
              => /\ deletion_choice' \in {"true", "false"}
                 /\ Running => inbox' = Append(inbox, DeletionConfirmed(deletion_choice' = "true"))
        /\ (deletion_choice # "None" /\ callerAlive' /\ ~ RunStarts)
              => deletion_choice' = deletion_choice
        /\ RunStarts => deletion_choice' = "None"
        /\ (ReadsDeletionRequest /\ deletion_choice # "None")
              => /\ ~ show_confirmation'
                 /\ deletion_choice' = deletion_choice
                 /\ Running => inbox' = Append(inbox, DeletionConfirmed(deletion_choice = "true"))
                 /\ ~ Running => inbox' = inbox
        /\ deletion_choice' # "None"
              => QueuedReplies(inbox') \subseteq {DeletionConfirmed(deletion_choice' = "true")}
      ]_vars

\* After "keep all" for the directory d, the request for the file d/f was
\* answered without a dialog; its denial is in the log.
C33_Witness ==
    /\ deletion_choice = "false"
    /\ hist.silent
    /\ ~ show_confirmation
    /\ Len(SelectSeq(sent, LAMBDA msg : msg.type = "ConfirmDeletion")) = 2
    /\ {<<"cancel_delete_dir", "d">>, <<"cancel_delete", "d/f">>} \subseteq Range(logFile)
    /\ logFile[Len(logFile)] = <<"cancel_delete", "d/f">>

\* The message answers the request of the action a.
Answers(msg, a) ==
    \/ a.kind \in DeleteKinds /\ msg.type = "DeletionConfirmed"
    \/ a.kind = "Conflict" /\ msg.type = "ConflictResolved"

\* The executor awaits the reply to cur, and a Stop is queued with no reply
\* to cur before it.
StopWhileWaiting ==
    /\ pc = "wait"
    /\ \E i \in 1 .. Len(inbox) :
          /\ inbox[i] = Stop
          /\ \A j \in 1 .. i - 1 : ~ Answers(inbox[j], cur)

\* The run has ended stopped with the action a still to be done.
EndedStoppedBefore(a) ==
    /\ pc = "done"
    /\ result = "stop"
    /\ hist.stopAt = "wait"
    /\ a \in remaining
    /\ Complete \notin Range(sent)
    /\ callerAlive => (sent # <<>> /\ sent[Len(sent)] = Stopped)

\* C34: a Stop queued while the executor awaits a DeletionConfirmed or a
\* ConflictResolved, with no reply before it, is always taken: from then on
\* no step changes a tree, the metadata file or the durable log or takes
\* the pending action off the plan, and the run ends stopped, Stopped being
\* its last message.
C34_StopObservedWhileWaiting ==
    /\ [][ StopWhileWaiting
              => /\ local' = local /\ remote' = remote /\ meta' = meta
                 /\ remaining' = remaining /\ cur' = cur
                 /\ logFile' = logFile
                 /\ pc' \in {"wait", "finish"}
                 /\ pc' = "finish" => result' = "stop"
          ]_vars
    /\ StopWhileWaiting ~> EndedStoppedBefore(cur)

\* The run has ended stopped in the wait for the reply to a deletion
\* request whose dialog is still open: the deletion was not applied.
C34_Witness ==
    /\ EndedStoppedBefore(cur)
    /\ cur.kind \in DeleteKinds
    /\ show_confirmation
    /\ stopSent
    /\ logFile = <<>>
    /\ IF DeleteSide(cur) = "local"
       THEN cur.path \in DOMAIN local.files \cup local.dirs
       ELSE cur.path \in DOMAIN remote.files \cup remote.dirs

\* The run was stopped in the chunked copy of cur, whose destination file
\* was there when the run scanned the trees and whose path the baseline
\* holds.
StoppedOverwriting ==
    /\ pc = "done"
    /\ result = "stop"
    /\ hist.stopAt = "copying"
    /\ cur.path \in DOMAIN last_sync_data.files
    /\ IF FromSide(cur, resolution) = "local" THEN InRemote(cur.path) ELSE InLocal(cur.path)

\* C35: after a run stopped while the chunked copy was overwriting an
\* existing destination file of a path the baseline holds, the next run,
\* nothing else having changed, plans the copy of the path in the same
\* direction again and plans neither DeleteLocal nor DeleteRemote for it.
C35_CancelledCopyNeverDeletes ==
    StoppedOverwriting
        => /\ Act(IF FromSide(cur, resolution) = "local" THEN "LocalToRemote" ELSE "RemoteToLocal",
                  cur.path) \in NextRunPlan
           /\ Act("DeleteLocal", cur.path) \notin NextRunPlan
           /\ Act("DeleteRemote", cur.path) \notin NextRunPlan

\* The run has completed and the deletion of p on the mirror, which it had
\* planned, was denied.
DeniedRemoteDeletion(p) ==
    /\ pc = "done"
    /\ result = "ok"
    /\ Act("DeleteRemote", p) \in sync_plan
    /\ <<"cancel_delete", p>> \in Range(logFile)

\* What the next run finds for p after the denial: no record in the new
\* baseline, and so a copy to the local side in its plan, not the deletion
\* on the mirror again.
RestoredNextRun(p) ==
    /\ meta.state = "ok"
    /\ p \notin DOMAIN meta.data.files
    /\ Act("RemoteToLocal", p) \in NextRunPlan
    /\ Act("DeleteRemote", p) \notin NextRunPlan

\* C36 (as claimed): after DeleteRemote(p) was denied and the run has
\* completed, the new baseline has no record for p and the next run, nothing
\* else having changed, plans RemoteToLocal(p) and not DeleteRemote(p).
C36_DeniedRemoteDeletionRestores ==
    \A p \in FilePaths : DeniedRemoteDeletion(p) => RestoredNextRun(p)

\* C36 (amended): the same for every p that is still on the mirror when the
\* run completes, that is, unless the run has removed a directory above p
\* from the mirror after the denial.
C36_DeniedRemoteDeletionRestoresKeptFile ==
    \A p \in FilePaths :
        (DeniedRemoteDeletion(p) /\ p \in DOMAIN remote.files) => RestoredNextRun(p)

C36_Witness ==
    /\ DeniedRemoteDeletion("d/f")
    /\ "d/f" \in DOMAIN remote.files
    /\ "d/f" \notin DOMAIN local.files
    /\ "d/f" \in DOMAIN last_sync_data.files
    /\ Act("RemoteToLocal", "d/f") \in NextRunPlan

\* The run has ended without reaching completion: stopped, or on an error.
EndedIncomplete == pc = "done" /\ result \in {"stop", "disconnected", "error"}

\* C37: a run that ends stopped (a Stop during the final scan included) or
\* on an error leaves the metadata file as it was when the run started; the
\* file is written by no step but the save that follows the final scan.
C37_BaselineWrittenOnlyOnCompletion ==
    /\ EndedIncomplete => meta = hist.meta0
    /\ (meta # hist.meta0) => pc \in {"final_send", "finish", "done"}

\* The terminal messages among the messages of the run.
Terminals(q) == {i \in 1 .. Len(q) : q[i] \in {Complete, Stopped}}

\* C38: whatever its arguments (a root that is not set and a local root
\* without a final name component included) and however it ends, a run
\* whose caller is there has sent, once it has returned, exactly one
\* terminal message, Complete or Stopped, as its last message; while it
\* runs it has sent none.
C38_ExactlyOneTerminalMessage ==
    /\ (pc = "done" /\ callerAlive) => Terminals(sent) = {Len(sent)} /\ sent # <<>>
    /\ Running => Terminals(sent) = {}

\* The files the scan found under the directory d on a side.
FilesUnder(data, d) == {p \in DOMAIN data.files : StartsWith(p, d)}

\* C39: when the plan holds DeleteLocalDir(d), every file the local scan
\* found under d has a record in the baseline and the plan holds no copy,
\* in either direction, of a path under d; the same for DeleteRemoteDir(d)
\* and the mirror.
C39_DirDeletionKeepsUnsyncedData ==
    PlanBuilt =>
        \A d \in DirPaths :
            /\ Act("DeleteLocalDir", d) \in sync_plan
                  => /\ FilesUnder(local_sync_data, d) \subseteq DOMAIN last_sync_data.files
                     /\ ~ \E a \in sync_plan : a.kind \in CopyKinds /\ StartsWith(a.path, d)
            /\ Act("DeleteRemoteDir", d) \in sync_plan
                  => /\ FilesUnder(remote_sync_data, d) \subseteq DOMAIN last_sync_data.files
                     /\ ~ \E a \in sync_plan : a.kind \in CopyKinds /\ StartsWith(a.path, d)

\* The record of the file p of a tree: its size and modification time, and
\* the hash the cache or the Hasher gives for it.
RecordOf(tree, p) ==
    [hash |-> ScanHash(tree.files[p], p, last_sync_data),
     modified |-> tree.files[p].m,
     size |-> SizeOf(tree.files[p].c)]

\* data holds one record for each file of the tree, under its relative
\* path, each directory of the tree, and nothing else.
CompleteSnapshot(data, tree) ==
    /\ DOMAIN data.files = DOMAIN tree.files
    /\ \A p \in DOMAIN tree.files : data.files[p] = RecordOf(tree, p)
    /\ data.directories = tree.dirs
    /\ MetaFile \notin DOMAIN data.files
    /\ Root \notin data.directories

\* C40: with no Stop and no failing read, whatever the order in which the
\* workers took their steps, the scan returns one record for each file of
\* the tree that is not a control file, each directory but the root, and no
\* record for the metadata file.
C40_ScanIsDeterministic ==
    /\ pc \in {"scan_remote", "plan", "exec"} => CompleteSnapshot(local_sync_data, local)
    /\ pc \in {"plan", "exec"} => CompleteSnapshot(remote_sync_data, remote)

====
